---- MODULE Spec2Model ----
(***************************************************************************)
(* Model of the classification orchestrator (src/app/orchestrator.py):     *)
(* the prompt flow engine, the decision resolver, the dual-model           *)
(* reconciler and the result assembler of classify_document.               *)
(* run_detectors (src/app/detectors.py), the call that precedes it, is     *)
(* modelled as a specification of its own, DetectSpec.                     *)
(*                                                                         *)
(* Encodings.                                                              *)
(*   Optional values: None is <<>>, a present value x is <<x>>.            *)
(*   Floats: confidences and scores are integers in hundredths (0.7 = 70). *)
(*   Strings that the code strips or slices: run-length encoded, a         *)
(*   sequence of runs [c |-> character, n |-> repetitions].                *)
(*   JSON values: records tagged by a field t ("dict", "list", "null",     *)
(*   "num", "str"); a key of a dict that may be missing is an Optional.    *)
(***************************************************************************)
EXTENDS Integers, Sequences, FiniteSets, TLC

None == <<>>
Some(x) == <<x>>
IsNone(o) == o = <<>>
Val(o) == o[1]

Min(a, b) == IF a <= b THEN a ELSE b
Abs(a) == IF a < 0 THEN 0 - a ELSE a

(***************************************************************************)
(* Run-length encoded strings                                              *)
(***************************************************************************)
Run(ch, k) == [c |-> ch, n |-> k]
Str(ch) == <<Run(ch, 1)>>
EmptyStr == <<>>

RECURSIVE lstrip(_)
lstrip(s) ==
    IF s = <<>> THEN s
    ELSE IF Head(s).c = " " THEN lstrip(Tail(s)) ELSE s

RECURSIVE rstrip(_)
rstrip(s) ==
    IF s = <<>> THEN s
    ELSE IF s[Len(s)].c = " " THEN rstrip(SubSeq(s, 1, Len(s) - 1)) ELSE s

\* str.strip(): leading and trailing whitespace removed
strip(s) == rstrip(lstrip(s))

\* s[:k]: the first k characters
RECURSIVE slice(_, _)
slice(s, k) ==
    IF s = <<>> \/ k <= 0 THEN <<>>
    ELSE IF Head(s).n >= k THEN <<Run(Head(s).c, k)>>
    ELSE <<Head(s)>> \o slice(Tail(s), k - Head(s).n)

\* the characters in which two snippets agree once stripped: key length
SNIPPET_KEY_CHARS == 120

(***************************************************************************)
(* Citation (models.py), the dedup key and _dedupe_citations               *)
(***************************************************************************)
Citation(page, snippet, image_index, region, source) ==
    [page |-> page, snippet |-> snippet, image_index |-> image_index,
     region |-> region, source |-> source]

\* (x or ""): None becomes the empty string
OrEmpty(o) == IF IsNone(o) THEN EmptyStr ELSE Val(o)
OrEmptyName(o) == IF IsNone(o) THEN "" ELSE Val(o)

\* the key taken from the snippet and the region as they are
raw_dedupe_key(cite) ==
    <<cite.page, cite.image_index, OrEmpty(cite.region),
      OrEmptyName(cite.source), slice(cite.snippet, SNIPPET_KEY_CHARS)>>

dedupe_key(cite) ==
    <<cite.page, cite.image_index, strip(OrEmpty(cite.region)),
      OrEmptyName(cite.source), slice(strip(cite.snippet), SNIPPET_KEY_CHARS)>>

\* a later citation with a key already seen takes the place of the earlier one
RECURSIVE dedupe_keep_last(_, _, _)
dedupe_keep_last(citations, seen, unique) ==
    IF citations = <<>> THEN unique
    ELSE LET cite == Head(citations)
             key == dedupe_key(cite)
         IN IF key \notin seen
            THEN dedupe_keep_last(Tail(citations), seen \cup {key},
                                  Append(unique, cite))
            ELSE dedupe_keep_last(Tail(citations), seen,
                    [i \in 1..Len(unique) |->
                        IF dedupe_key(unique[i]) = key THEN cite ELSE unique[i]])

RECURSIVE dedupe_from(_, _, _)
dedupe_from(citations, seen, unique) ==
    IF citations = <<>> THEN unique
    ELSE LET cite == Head(citations)
             key == dedupe_key(cite)
         IN IF key \notin seen
            THEN dedupe_from(Tail(citations), seen \cup {key}, Append(unique, cite))
            ELSE dedupe_from(Tail(citations), seen, unique)

dedupe_citations(citations) == dedupe_from(citations, {}, <<>>)

(***************************************************************************)
(* JSON values as the models return them                                   *)
(***************************************************************************)
JNull == [t |-> "null"]
JBool(b) == [t |-> "bool", v |-> b]
JNum(n) == [t |-> "num", v |-> n]
\* a short string (label, tag, message), kept as a TLA+ string
JStr(s) == [t |-> "str", v |-> s]
\* a string the code strips or slices, run-length encoded
JText(s) == [t |-> "text", v |-> s]
JList(l) == [t |-> "list", v |-> l]
\* a dict is a record: DOMAIN d.v is the set of its keys
JDict(r) == [t |-> "dict", v |-> r]

IsDict(j) == j.t = "dict"
IsList(j) == j.t = "list"
IsString(j) == j.t \in {"str", "text"}
HasKey(j, k) == k \in DOMAIN j.v

\* bool(x)
Truthy(j) ==
    CASE j.t = "null" -> FALSE
      [] j.t = "bool" -> j.v
      [] j.t = "num" -> j.v # 0
      [] j.t = "str" -> j.v # ""
      [] j.t = "text" -> j.v # <<>>
      [] j.t = "list" -> j.v # <<>>
      [] j.t = "dict" -> DOMAIN j.v # {}

EmptyDict == JDict([k \in {} |-> JNull])

\* d.get(k, default) and d.get(k) on a dict d
Get(d, k, default) == IF HasKey(d, k) THEN d.v[k] ELSE default
GetOrNone(d, k) == Get(d, k, JNull)

(***************************************************************************)
(* Categories, the severity table and _resolve_category_conflict           *)
(***************************************************************************)
Category == {"Public", "Confidential", "Highly Sensitive", "Unsafe"}

\* priority.get(cat, 0)
priority(cat) ==
    IF cat.t # "str" THEN 0
    ELSE CASE cat.v = "Unsafe" -> 4
           [] cat.v = "Highly Sensitive" -> 3
           [] cat.v = "Confidential" -> 2
           [] cat.v = "Public" -> 1
           [] OTHER -> 0

\* the second opinion wins whenever it names a category
prefer_secondary(cat1, cat2) ==
    IF ~Truthy(cat2) THEN cat1 ELSE cat2

\* the primary category stands whatever the second opinion says
resolve_keep_primary(cat1, cat2) == cat1

\* the comparison the other way round: the less severe category wins
resolve_least_severe(cat1, cat2) ==
    IF ~Truthy(cat2) THEN cat1
    ELSE IF priority(cat1) <= priority(cat2) THEN cat1 ELSE cat2

resolve_category_conflict(cat1, cat2) ==
    IF ~Truthy(cat2) THEN cat1
    ELSE IF priority(cat1) >= priority(cat2) THEN cat1 ELSE cat2

(***************************************************************************)
(* _compute_llm_agreement                                                  *)
(***************************************************************************)
\* In hundredths. The confidences the models report below are chosen so that
\* the binary floating point difference falls on the same side of 0.2 as the
\* decimal one (0.7 - 0.5 < 0.2 in floating point; no such pair is used).
DEFAULT_CONFIDENCE == 70
CONFIDENCE_GAP == 20
FULL_SCORE == 100
HALF_SCORE == 50

\* `"error" in gemini_result`: key test on a dict, membership on a list,
\* TypeError on null, a number or a boolean
ErrorInRaises(gem) == gem.t \in {"null", "num", "bool"}
ErrorIn(gem) ==
    CASE gem.t = "dict" -> HasKey(gem, "error")
      [] gem.t = "list" -> \E i \in 1..Len(gem.v) : gem.v[i] = JStr("error")
      [] OTHER -> FALSE

\* a - b on Python numbers: defined on int and float operands only
IsNumber(j) == j.t = "num"

\* a failed second opinion scored as half agreement
gemini_error_half_agreement ==
    [raised |-> FALSE, score |-> HALF_SCORE,
     disagreements |-> <<[note |-> "gemini_error"]>>]

\* lines 488-489
gemini_error_agreement ==
    [raised |-> FALSE, score |-> 0,
     disagreements |-> <<[note |-> "gemini_error"]>>]

\* confidences a full 0.2 apart still count as matching
compute_llm_agreement_gap_inclusive(prompt_tree_result, gemini_result) ==
    IF ErrorInRaises(gemini_result) THEN [raised |-> TRUE, error |-> "TypeError"]
    ELSE IF ErrorIn(gemini_result) THEN gemini_error_agreement
    ELSE IF ~IsDict(gemini_result)
        THEN [raised |-> TRUE, error |-> "AttributeError"]
    ELSE
      LET pt_cat == prompt_tree_result.final_category
          gem_cat == Get(gemini_result, "Sensitivity", JStr(""))
          cat_match == pt_cat = gem_cat
          pt_conf == prompt_tree_result.confidence
          gem_conf == Get(gemini_result, "Confidence", JNum(DEFAULT_CONFIDENCE))
      IN IF ~IsNumber(gem_conf) THEN [raised |-> TRUE, error |-> "TypeError"]
         ELSE
           LET gap == Abs(pt_conf - gem_conf.v)
               conf_match == gap <= CONFIDENCE_GAP
               components == <<IF cat_match THEN FULL_SCORE ELSE 0,
                               IF conf_match THEN FULL_SCORE ELSE HALF_SCORE>>
               notes == (IF cat_match THEN <<>>
                         ELSE <<[note |-> "category", prompt_tree |-> pt_cat,
                                 gemini |-> gem_cat]>>)
                        \o (IF conf_match THEN <<>>
                            ELSE <<[note |-> "confidence_gap", gap |-> gap]>>)
           IN [raised |-> FALSE,
               score |-> (components[1] + components[2]) \div Len(components),
               disagreements |-> notes]

\* the value is [raised |-> TRUE] where the Python function raises
compute_llm_agreement(prompt_tree_result, gemini_result) ==
    IF ErrorInRaises(gemini_result) THEN [raised |-> TRUE, error |-> "TypeError"]
    ELSE IF ErrorIn(gemini_result) THEN gemini_error_agreement
    ELSE IF ~IsDict(gemini_result)
        THEN [raised |-> TRUE, error |-> "AttributeError"]
    ELSE
      LET pt_cat == prompt_tree_result.final_category
          gem_cat == Get(gemini_result, "Sensitivity", JStr(""))
          cat_match == pt_cat = gem_cat
          pt_conf == prompt_tree_result.confidence
          gem_conf == Get(gemini_result, "Confidence", JNum(DEFAULT_CONFIDENCE))
      IN IF ~IsNumber(gem_conf) THEN [raised |-> TRUE, error |-> "TypeError"]
         ELSE
           LET gap == Abs(pt_conf - gem_conf.v)
               conf_match == gap < CONFIDENCE_GAP
               components == <<IF cat_match THEN FULL_SCORE ELSE 0,
                               IF conf_match THEN FULL_SCORE ELSE HALF_SCORE>>
               notes == (IF cat_match THEN <<>>
                         ELSE <<[note |-> "category", prompt_tree |-> pt_cat,
                                 gemini |-> gem_cat]>>)
                        \o (IF conf_match THEN <<>>
                            ELSE <<[note |-> "confidence_gap", gap |-> gap]>>)
           IN [raised |-> FALSE,
               score |-> (components[1] + components[2]) \div Len(components),
               disagreements |-> notes]

(***************************************************************************)
(* _fallback_decision                                                      *)
(***************************************************************************)
FALLBACK_CITATIONS == 3

\* the ladder with the PII rung tried before the unsafe rung
fallback_decision_pii_first(signals) ==
    LET rung == IF signals.has_pii
                    THEN [cat |-> JStr("Highly Sensitive"), tags |-> <<JStr("PII")>>,
                          expl |-> JStr("PII patterns detected.")]
                ELSE IF signals.has_unsafe_pattern
                    THEN [cat |-> JStr("Unsafe"), tags |-> <<JStr("Safety-Risk")>>,
                          expl |-> JStr("Unsafe keywords detected.")]
                ELSE IF signals.has_internal_markers
                    THEN [cat |-> JStr("Confidential"), tags |-> <<JStr("Internal")>>,
                          expl |-> JStr("Internal markers detected.")]
                ELSE [cat |-> JStr("Public"), tags |-> <<>>,
                      expl |-> JStr("No sensitive markers found.")]
        hits == IF signals.pii_hits # <<>> THEN signals.pii_hits
                ELSE signals.unsafe_hits
    IN [final_category |-> rung.cat,
        secondary_tags |-> JList(rung.tags),
        confidence |-> DEFAULT_CONFIDENCE,
        citations |-> SubSeq(hits, 1, Min(FALLBACK_CITATIONS, Len(hits))),
        explanation |-> rung.expl]

\* the PII rung taken on the presence of hits rather than on the flag
fallback_decision_by_hits(signals) ==
    LET rung == IF signals.has_unsafe_pattern
                    THEN [cat |-> JStr("Unsafe"), tags |-> <<JStr("Safety-Risk")>>,
                          expl |-> JStr("Unsafe keywords detected.")]
                ELSE IF signals.pii_hits # <<>>
                    THEN [cat |-> JStr("Highly Sensitive"), tags |-> <<JStr("PII")>>,
                          expl |-> JStr("PII patterns detected.")]
                ELSE IF signals.has_internal_markers
                    THEN [cat |-> JStr("Confidential"), tags |-> <<JStr("Internal")>>,
                          expl |-> JStr("Internal markers detected.")]
                ELSE [cat |-> JStr("Public"), tags |-> <<>>,
                      expl |-> JStr("No sensitive markers found.")]
        hits == IF signals.pii_hits # <<>> THEN signals.pii_hits
                ELSE signals.unsafe_hits
    IN [final_category |-> rung.cat,
        secondary_tags |-> JList(rung.tags),
        confidence |-> DEFAULT_CONFIDENCE,
        citations |-> SubSeq(hits, 1, Min(FALLBACK_CITATIONS, Len(hits))),
        explanation |-> rung.expl]

\* the citations taken from the hits of the rung that matched
fallback_decision_rung_hits(signals) ==
    LET rung == IF signals.has_unsafe_pattern
                    THEN [cat |-> JStr("Unsafe"), tags |-> <<JStr("Safety-Risk")>>,
                          expl |-> JStr("Unsafe keywords detected."),
                          hits |-> signals.unsafe_hits]
                ELSE IF signals.has_pii
                    THEN [cat |-> JStr("Highly Sensitive"), tags |-> <<JStr("PII")>>,
                          expl |-> JStr("PII patterns detected."),
                          hits |-> signals.pii_hits]
                ELSE IF signals.has_internal_markers
                    THEN [cat |-> JStr("Confidential"), tags |-> <<JStr("Internal")>>,
                          expl |-> JStr("Internal markers detected."),
                          hits |-> <<>>]
                ELSE [cat |-> JStr("Public"), tags |-> <<>>,
                      expl |-> JStr("No sensitive markers found."),
                      hits |-> <<>>]
    IN [final_category |-> rung.cat,
        secondary_tags |-> JList(rung.tags),
        confidence |-> DEFAULT_CONFIDENCE,
        citations |-> SubSeq(rung.hits, 1, Min(FALLBACK_CITATIONS, Len(rung.hits))),
        explanation |-> rung.expl]

fallback_decision(signals) ==
    LET rung == IF signals.has_unsafe_pattern
                    THEN [cat |-> JStr("Unsafe"), tags |-> <<JStr("Safety-Risk")>>,
                          expl |-> JStr("Unsafe keywords detected.")]
                ELSE IF signals.has_pii
                    THEN [cat |-> JStr("Highly Sensitive"), tags |-> <<JStr("PII")>>,
                          expl |-> JStr("PII patterns detected.")]
                ELSE IF signals.has_internal_markers
                    THEN [cat |-> JStr("Confidential"), tags |-> <<JStr("Internal")>>,
                          expl |-> JStr("Internal markers detected.")]
                ELSE [cat |-> JStr("Public"), tags |-> <<>>,
                      expl |-> JStr("No sensitive markers found.")]
        hits == IF signals.pii_hits # <<>> THEN signals.pii_hits
                ELSE signals.unsafe_hits
    IN [final_category |-> rung.cat,
        secondary_tags |-> JList(rung.tags),
        confidence |-> DEFAULT_CONFIDENCE,
        citations |-> SubSeq(hits, 1, Min(FALLBACK_CITATIONS, Len(hits))),
        explanation |-> rung.expl]

(***************************************************************************)
(* Flow helpers: gating, dependencies, error markers, stop conditions      *)
(***************************************************************************)
\* getattr(signals, attr, False) for the attributes a condition may name
SignalAttr(signals, attr) ==
    CASE attr = "has_pii" -> signals.has_pii
      [] attr = "has_unsafe_pattern" -> signals.has_unsafe_pattern
      [] attr = "has_internal_markers" -> signals.has_internal_markers
      [] OTHER -> FALSE

\* the gate without its signals_false test
should_run_node_unless_false(node_cfg, signals, images_data) ==
    /\ ~(node_cfg.conditions.has_images /\ images_data = <<>>)
    /\ \A attr \in node_cfg.conditions.signals_true : SignalAttr(signals, attr)

should_run_node(node_cfg, signals, images_data) ==
    /\ ~(node_cfg.conditions.has_images /\ images_data = <<>>)
    /\ \A attr \in node_cfg.conditions.signals_true : SignalAttr(signals, attr)
    /\ \A attr \in node_cfg.conditions.signals_false : ~SignalAttr(signals, attr)

\* a node runs whether or not its dependencies have an output
dependencies_ignored(node_cfg, outputs) == TRUE

dependencies_ready(node_cfg, outputs) ==
    \A dep \in node_cfg.depends_on : dep \in DOMAIN outputs

\* the marker looked up under a key the error marker does not carry
output_has_error_flag(output) ==
    IsDict(output) /\ Truthy(GetOrNone(output, "is_mock"))

\* every object a node returns taken for an error marker
output_has_error_any_dict(output) == IsDict(output)

output_has_error(output) ==
    IsDict(output) /\ Truthy(GetOrNone(output, "mock"))

ErrorMarker(message, name) ==
    JDict([mock |-> JBool(TRUE), error |-> JStr(message), prompt_node |-> JStr(name)])

\* int(part) on the path parts the flows use
IsIndex(part) == part \in {"0", "1"}
ToIndex(part) == IF part = "0" THEN 0 ELSE 1

\* the lookup through mappings only: a list on the path gives None
RECURSIVE extract_path_mappings_only(_, _)
extract_path_mappings_only(payload, path) ==
    IF path = <<>> THEN payload
    ELSE IF IsDict(payload)
        THEN extract_path_mappings_only(GetOrNone(payload, Head(path)), Tail(path))
    ELSE JNull

RECURSIVE extract_path_value(_, _)
extract_path_value(payload, path) ==
    IF path = <<>> THEN payload
    ELSE LET part == Head(path)
         IN CASE IsDict(payload) ->
                   extract_path_value(GetOrNone(payload, part), Tail(path))
              [] IsList(payload) ->
                   IF ~IsIndex(part) THEN JNull
                   ELSE IF ToIndex(part) >= Len(payload.v) THEN JNull
                   ELSE extract_path_value(payload.v[ToIndex(part) + 1], Tail(path))
              [] OTHER -> JNull

\* a condition is [path, equals]: equals is None when the clause is missing
stop_conditions_met(node_cfg, output) ==
    \E i \in 1..Len(node_cfg.stop_if) :
        LET cond == node_cfg.stop_if[i]
            value == extract_path_value(output, cond.path)
        IN /\ cond.path # <<>>
           /\ IF ~IsNone(cond.equals) THEN value = Val(cond.equals)
              ELSE Truthy(value)

\* no node ends the flow for being final
never_final_node(node_cfg) == FALSE

\* node.get("final_node")
is_final_node(node_cfg) == node_cfg.final_node

\* summary_pages[page] = summary needs a hashable page
Hashable(j) == j.t \notin {"list", "dict"}

\* the output is never merged into the map
update_summary_pages_never(output, summary_pages) ==
    [raised |-> FALSE, pages |-> summary_pages]

RECURSIVE update_summary_entries(_, _)
update_summary_entries(entries, summary_pages) ==
    IF entries = <<>> THEN [raised |-> FALSE, pages |-> summary_pages]
    ELSE LET entry == Head(entries)
             page == GetOrNone(entry, "page")
             summary == GetOrNone(entry, "summary")
         IN IF ~IsDict(entry) \/ ~Truthy(page) \/ ~Truthy(summary)
                THEN update_summary_entries(Tail(entries), summary_pages)
            ELSE IF ~Hashable(page) THEN [raised |-> TRUE]
            ELSE update_summary_entries(Tail(entries),
                     (page :> summary) @@ summary_pages)

update_summary_pages(output, summary_pages) ==
    IF IsList(output) THEN update_summary_entries(output.v, summary_pages)
    ELSE [raised |-> FALSE, pages |-> summary_pages]

\* line 146: the map a text node passes as override_pages
override_pages(node_cfg, summary_pages) ==
    IF node_cfg.use_summary_pages /\ DOMAIN summary_pages # {}
        THEN Some(summary_pages) ELSE None

\* line 95: override_pages or pages, the page map of the payload
payload_pages(override, pages) ==
    IF ~IsNone(override) /\ DOMAIN Val(override) # {}
        THEN [from |-> "summary_pages", map |-> Val(override)]
    ELSE [from |-> "pages", map |-> pages]

(***************************************************************************)
(* Building a Citation from model output and _collect_citations            *)
(***************************************************************************)
\* concatenation of run-length encoded strings
Concat(a, b) ==
    IF a = <<>> THEN b
    ELSE IF b = <<>> THEN a
    ELSE IF a[Len(a)].c = Head(b).c
        THEN SubSeq(a, 1, Len(a) - 1)
             \o <<Run(Head(b).c, a[Len(a)].n + Head(b).n)>> \o Tail(b)
    ELSE a \o b

\* ", ".join(regions)
RECURSIVE join(_)
join(regions) ==
    IF Len(regions) = 1 THEN Head(regions).v
    ELSE Concat(Concat(Head(regions).v, <<Run(",", 1), Run(" ", 1)>>),
                join(Tail(regions)))

\* Optional[int] and Optional[str] fields accept null and the matching type
ValidOptInt(j) == j.t \in {"null", "num"}
ValidOptText(j) == j.t \in {"null", "text"}
ToOpt(j) == IF j.t = "null" THEN None ELSE Some(j.v)

\* Citation(page=..., snippet=..., image_index=..., region=..., source=...):
\* ok is FALSE where pydantic rejects a field
make_citation(page, snippet, image_index, region, source) ==
    IF ValidOptInt(page) /\ snippet.t = "text" /\ ValidOptInt(image_index)
       /\ ValidOptText(region)
    THEN [ok |-> TRUE,
          cite |-> Citation(ToOpt(page), snippet.v, ToOpt(image_index),
                            ToOpt(region), Some(source))]
    ELSE [ok |-> FALSE]

\* the list a node keeps its citations under, and the key of their text
CitationList(node_id) ==
    CASE node_id = "pii_scan" -> "pii_spans"
      [] node_id = "image_analysis" -> "findings"
      [] OTHER -> "citations"

CitationText(node_id) ==
    CASE node_id \in {"pii_scan", "unsafe_scan"} -> "text"
      [] node_id = "image_analysis" -> "description"
      [] OTHER -> "snippet"

HarvestedNodes ==
    {"pii_scan", "unsafe_scan", "confidentiality_scan", "final_decision",
     "image_analysis"}

\* the Citation one entry of a node's list becomes
entry_citation(node_id, entry) ==
    LET text == GetOrNone(entry, CitationText(node_id))
        regions == GetOrNone(entry, "regions_of_concern")
    IN CASE node_id = "final_decision" ->
              make_citation(GetOrNone(entry, "page"), text,
                            GetOrNone(entry, "image_index"),
                            GetOrNone(entry, "region"), node_id)
         [] node_id = "image_analysis" ->
              make_citation(GetOrNone(entry, "page"), text,
                            GetOrNone(entry, "image_index"),
                            IF Truthy(regions) THEN JText(join(regions.v))
                            ELSE JNull,
                            node_id)
         [] OTHER ->
              make_citation(GetOrNone(entry, "page"), text, JNull, JNull, node_id)

\* the loop over the entries; an exception ends it and keeps what was gathered
RECURSIVE collect_entries(_, _, _)
collect_entries(node_id, entries, citations) ==
    IF entries = <<>> THEN citations
    ELSE LET entry == Head(entries)
         IN IF ~IsDict(entry) \/ ~Truthy(GetOrNone(entry, CitationText(node_id)))
                THEN collect_entries(node_id, Tail(entries), citations)
            ELSE LET made == entry_citation(node_id, entry)
                 IN IF made.ok
                        THEN collect_entries(node_id, Tail(entries),
                                             Append(citations, made.cite))
                    ELSE citations

collect_citations(node_id, output) ==
    IF output.t = "null" THEN <<>>
    ELSE IF output_has_error(output) THEN <<>>
    ELSE IF node_id \notin HarvestedNodes THEN <<>>
    ELSE IF ~IsDict(output) THEN <<>>
    ELSE LET listed == Get(output, CitationList(node_id), JList(<<>>))
         IN IF IsList(listed) THEN collect_entries(node_id, listed.v, <<>>)
            ELSE <<>>

(***************************************************************************)
(* Decision resolver: the terminal output parsed into the primary verdict  *)
(***************************************************************************)
\* json.loads on the strings a node returns: the text of an object decodes
\* to that object, any other text is a JSONDecodeError (None)
EncodedVerdict == "{\"final_category\": \"Confidential\"}"
json_loads(text) ==
    IF text = EncodedVerdict
    THEN Some(JDict([final_category |-> JStr("Confidential")]))
    ELSE None

\* float(x): numbers, booleans and numeric strings convert, the rest raises
NumericText == "0.9"
to_float(j) ==
    CASE j.t = "num" -> Some(j.v)
      [] j.t = "bool" -> Some(IF j.v THEN 100 ELSE 0)
      [] j.t = "str" /\ j.v = NumericText -> Some(90)
      [] OTHER -> None

\* iterating data.get("citations", []): null, numbers and booleans raise,
\* a list yields its entries, a string or a dict yields no dict entry
Iterable(j) == j.t \notin {"null", "num", "bool"}
Entries(j) == IF IsList(j) THEN j.v ELSE <<>>

\* the list comprehension of lines 209-219; ok is FALSE where a Citation
\* is rejected
RECURSIVE final_decision_entries(_, _)
final_decision_entries(entries, citations) ==
    IF entries = <<>> THEN [ok |-> TRUE, citations |-> citations]
    ELSE LET c == Head(entries)
         IN IF ~IsDict(c) \/ ~Truthy(GetOrNone(c, "snippet"))
                THEN final_decision_entries(Tail(entries), citations)
            ELSE LET made == make_citation(GetOrNone(c, "page"),
                                           Get(c, "snippet", JText(EmptyStr)),
                                           GetOrNone(c, "image_index"),
                                           GetOrNone(c, "region"),
                                           "final_decision")
                 IN IF made.ok
                        THEN final_decision_entries(Tail(entries),
                                 Append(citations, made.cite))
                    ELSE [ok |-> FALSE]

\* the category read with data.get: a missing final_category parses as null
parse_final_out_lenient(final_out) ==
    LET loaded == IF IsDict(final_out) THEN Some(final_out)
                  ELSE IF final_out.t = "str" THEN json_loads(final_out.v)
                  ELSE None
    IN IF IsNone(loaded) THEN [ok |-> FALSE]
       ELSE LET data == Val(loaded)
                confidence == to_float(Get(data, "confidence",
                                           JNum(DEFAULT_CONFIDENCE)))
                listed == Get(data, "citations", JList(<<>>))
                cited == final_decision_entries(Entries(listed), <<>>)
            IN IF IsNone(confidence) \/ ~Iterable(listed)
                   THEN [ok |-> FALSE]
               ELSE IF ~cited.ok THEN [ok |-> FALSE]
               ELSE [ok |-> TRUE,
                     final_category |-> GetOrNone(data, "final_category"),
                     secondary_tags |-> Get(data, "secondary_tags", JList(<<>>)),
                     confidence |-> Val(confidence),
                     final_decision_citations |-> cited.citations,
                     explanation |-> Get(data, "explanation", JStr(""))]

\* the try block of lines 204-236; ok is FALSE where it raises
parse_final_out(final_out) ==
    LET loaded == IF IsDict(final_out) THEN Some(final_out)
                  ELSE IF final_out.t = "str" THEN json_loads(final_out.v)
                  ELSE None
    IN IF IsNone(loaded) THEN [ok |-> FALSE]
       ELSE LET data == Val(loaded)
                confidence == to_float(Get(data, "confidence",
                                           JNum(DEFAULT_CONFIDENCE)))
                listed == Get(data, "citations", JList(<<>>))
                cited == final_decision_entries(Entries(listed), <<>>)
            IN IF ~HasKey(data, "final_category") \/ IsNone(confidence)
                  \/ ~Iterable(listed)
                   THEN [ok |-> FALSE]
               ELSE IF ~cited.ok THEN [ok |-> FALSE]
               ELSE [ok |-> TRUE,
                     final_category |-> data.v.final_category,
                     secondary_tags |-> Get(data, "secondary_tags", JList(<<>>)),
                     confidence |-> Val(confidence),
                     final_decision_citations |-> cited.citations,
                     explanation |-> Get(data, "explanation", JStr(""))]

\* the ladder's citations are left out of the audit trail
fallback_verdict_audit_only(signals, audit_citations) ==
    LET fb == fallback_decision(signals)
    IN [verdict |-> [final_category |-> fb.final_category,
                     secondary_tags |-> fb.secondary_tags,
                     confidence |-> fb.confidence,
                     citations |-> dedupe_citations(audit_citations),
                     explanation |-> fb.explanation,
                     source |-> "fallback"],
        audit |-> audit_citations,
        signals |-> signals]

\* the trail is appended to the hit list of the signals the ladder cites,
\* as extending the list the ladder read would do
fallback_verdict_extends_hits(signals, audit_citations) ==
    LET fb == fallback_decision(signals)
        audit == audit_citations \o fb.citations
    IN [verdict |-> [final_category |-> fb.final_category,
                     secondary_tags |-> fb.secondary_tags,
                     confidence |-> fb.confidence,
                     citations |-> IF audit # <<>> THEN dedupe_citations(audit)
                                   ELSE fb.citations,
                     explanation |-> fb.explanation,
                     source |-> "fallback"],
        audit |-> audit,
        signals |-> [signals EXCEPT !.pii_hits = @ \o audit_citations]]

\* lines 190-250: the primary verdict, the audit trail after it, and the
\* signals object after it: the ladder's citations are a slice, a list of its
\* own, and only the trail is extended
fallback_verdict(signals, audit_citations) ==
    LET fb == fallback_decision(signals)
        audit == audit_citations \o fb.citations
    IN [verdict |-> [final_category |-> fb.final_category,
                     secondary_tags |-> fb.secondary_tags,
                     confidence |-> fb.confidence,
                     citations |-> IF audit # <<>> THEN dedupe_citations(audit)
                                   ELSE fb.citations,
                     explanation |-> fb.explanation,
                     source |-> "fallback"],
        audit |-> audit,
        signals |-> signals]

resolve_verdict(final_out, signals, audit_citations) ==
    IF ~Truthy(final_out) \/ output_has_error(final_out)
        THEN fallback_verdict(signals, audit_citations)
    ELSE LET parsed == parse_final_out(final_out)
         IN IF ~parsed.ok THEN fallback_verdict(signals, audit_citations)
            ELSE LET audit == audit_citations \o parsed.final_decision_citations
                 IN [verdict |->
                        [final_category |-> parsed.final_category,
                         secondary_tags |-> parsed.secondary_tags,
                         confidence |-> parsed.confidence,
                         citations |-> IF audit # <<>> THEN dedupe_citations(audit)
                                       ELSE parsed.final_decision_citations,
                         explanation |-> parsed.explanation,
                         source |-> "prompt_tree"],
                     audit |-> audit,
                     signals |-> signals]

(***************************************************************************)
(* get_gemini_reasoning: the second opinion, every failure turned to data  *)
(***************************************************************************)
\* A response of the secondary model is
\*   [raises |-> TRUE, message]                      generate_content raised
\*   [raises |-> FALSE, candidates, finish_reason, form, value]
\* where form says what response.text is: "json" (the text of value),
\* "wrapped" (prose around the text of the object value), "wrapped_bad"
\* (prose around braces that hold no JSON), "prose" (no braces at all).
FINISH_STOP == 1

FinishOk(finish_reason) ==
    \/ finish_reason.t = "null"
    \/ finish_reason = JNum(FINISH_STOP)
    \/ finish_reason = JStr("STOP")

get_gemini_reasoning(reply) ==
    IF reply.raises
        THEN JDict([error |-> JStr(reply.message),
                    error_type |-> JStr("Exception")])
    ELSE IF ~reply.candidates
        THEN JDict([error |->
                 JStr("Gemini blocked by safety filters (no candidates returned)")])
    ELSE IF ~FinishOk(reply.finish_reason)
        THEN JDict([error |-> JStr("Gemini blocked output"),
                    safety_ratings |-> JStr("[]")])
    ELSE CASE reply.form = "json" -> reply.value
           [] reply.form = "wrapped" -> reply.value
           [] reply.form = "wrapped_bad" ->
                JDict([error |-> JStr("Expecting property name"),
                       error_type |-> JStr("JSONDecodeError")])
           [] OTHER ->
                JDict([error |-> JStr("Could not parse Gemini JSON"),
                       raw |-> JStr("prose")])

(***************************************************************************)
(* Reconciliation and the ClassificationResult (lines 262-317)             *)
(***************************************************************************)
REVIEW_CONFIDENCE == 80
REVIEW_AGREEMENT == 70
SAFE_FOR_KIDS == JStr("Content is safe for kids")

\* what pydantic accepts for the fields of ClassificationResult
\* final_category typed str instead of Category
AnyLabel(j) == j.t = "str"
ValidCategory(j) == j.t = "str" /\ j.v \in Category
ValidText(j) == IsString(j)
ValidTags(j) == IsList(j) /\ \A i \in 1..Len(j.v) : IsString(j.v[i])

\* the review threshold of the earlier orchestrator (src/orchestrator.py:83)
EARLIER_REVIEW_CONFIDENCE == 75
requires_review_earlier(final_confidence, signals, prompt_errors, agreement) ==
    \/ final_confidence < EARLIER_REVIEW_CONFIDENCE
    \/ signals.has_unsafe_pattern
    \/ prompt_errors # <<>>
    \/ agreement.score < REVIEW_AGREEMENT
    \/ Len(agreement.disagreements) > 0

\* lines 281-287
\* the agreement test the wrong way round: agreeing models force a review
requires_review_on_agreement(final_confidence, signals, prompt_errors, agreement) ==
    \/ final_confidence < REVIEW_CONFIDENCE
    \/ signals.has_unsafe_pattern
    \/ prompt_errors # <<>>
    \/ agreement.score >= REVIEW_AGREEMENT
    \/ Len(agreement.disagreements) > 0

requires_review(final_confidence, signals, prompt_errors, agreement) ==
    \/ final_confidence < REVIEW_CONFIDENCE
    \/ signals.has_unsafe_pattern
    \/ prompt_errors # <<>>
    \/ agreement.score < REVIEW_AGREEMENT
    \/ Len(agreement.disagreements) > 0

\* the default whatever the secondary verdict says
content_safety_default(gemini_result) == SAFE_FOR_KIDS

\* line 310
content_safety_of(gemini_result) ==
    IF ~ErrorIn(gemini_result)
        THEN Get(gemini_result, "Content_safety", SAFE_FOR_KIDS)
    ELSE SAFE_FOR_KIDS

\* the value is [raised |-> TRUE, error] where classify_document raises
assemble(verdict, gemini_result, signals, prompt_errors, flow_outputs) ==
    LET agreement == compute_llm_agreement(verdict, gemini_result)
    IN IF agreement.raised THEN [raised |-> TRUE, error |-> agreement.error]
       ELSE IF ~IsDict(gemini_result)
           THEN [raised |-> TRUE, error |-> "AttributeError"]
       ELSE
         LET no_error == ~ErrorIn(gemini_result)
             sensitivity == GetOrNone(gemini_result, "Sensitivity")
             final_category_to_use ==
                 resolve_category_conflict(verdict.final_category,
                     IF no_error THEN sensitivity ELSE JNull)
             adopted == final_category_to_use = sensitivity /\ no_error
             critical == GetOrNone(gemini_result, "Critical_info")
             final_confidence ==
                 IF adopted
                 THEN Get(gemini_result, "Confidence", JNum(verdict.confidence)).v
                 ELSE verdict.confidence
             final_explanation ==
                 IF adopted
                 THEN Get(gemini_result, "Reasoning", verdict.explanation)
                 ELSE verdict.explanation
             final_tags ==
                 IF adopted /\ IsList(critical) THEN critical
                 ELSE verdict.secondary_tags
             content_safety == content_safety_of(gemini_result)
         IN IF ~(/\ ValidCategory(final_category_to_use)
                 /\ ValidTags(final_tags)
                 /\ ValidText(final_explanation)
                 /\ ValidText(content_safety))
                THEN [raised |-> TRUE, error |-> "ValidationError"]
            ELSE [raised |-> FALSE,
                  result |->
                    [final_category |-> final_category_to_use.v,
                     secondary_tags |-> final_tags,
                     confidence |-> final_confidence,
                     explanation |-> final_explanation,
                     content_safety |-> content_safety,
                     citations |-> verdict.citations,
                     raw_signals |-> signals,
                     llm_payload |->
                       [prompt_errors |-> prompt_errors,
                        prompt_tree |-> verdict,
                        prompt_flow |-> flow_outputs,
                        gemini |-> gemini_result,
                        dual_llm_validation |->
                          [agreement_score |-> agreement.score,
                           disagreements |-> agreement.disagreements,
                           resolution_strategy |-> "most_restrictive"]],
                     requires_review |->
                        requires_review(final_confidence, signals,
                                        prompt_errors, agreement),
                     dual_llm_agreement |-> agreement.score,
                     dual_llm_disagreements |->
                        IF agreement.disagreements # <<>>
                        THEN Some(agreement.disagreements) ELSE None]]

(***************************************************************************)
(* run_detectors (detectors.py). A page text is a sequence of characters;  *)
(* the regular expressions are modelled by the strings they match.         *)
(***************************************************************************)
DigitChars ==
    {"0", "1", "2", "3", "4", "5", "6", "7", "8", "9"}
LowerCase ==
    <<"a", "b", "c", "d", "e", "f", "g", "h", "i", "j", "k",
     "l", "m", "n", "o", "p", "q", "r", "s", "t", "u", "v", "w", "x", "y", "z">>
UpperCase ==
    <<"A", "B", "C", "D", "E", "F", "G", "H", "I", "J", "K",
     "L", "M", "N", "O", "P", "Q", "R", "S", "T", "U", "V", "W", "X", "Y", "Z">>

IsDigit(ch) == ch \in DigitChars
\* \w: a letter, a digit or the underscore
IsWordChar(ch) ==
    \/ IsDigit(ch)
    \/ ch = "_"
    \/ \E i \in 1..Len(LowerCase) : ch = LowerCase[i] \/ ch = UpperCase[i]

\* str.lower()
LowerChar(ch) ==
    IF \E i \in 1..Len(UpperCase) : UpperCase[i] = ch
    THEN LowerCase[CHOOSE i \in 1..Len(UpperCase) : UpperCase[i] = ch]
    ELSE ch
lower(text) == [i \in 1..Len(text) |-> LowerChar(text[i])]

\* \b just before position i (i = Len(text) + 1: at the end of the text)
WordBoundary(text, i) ==
    (i > 1 /\ IsWordChar(text[i - 1])) # (i <= Len(text) /\ IsWordChar(text[i]))

\* \d{3}-\d{2}-\d{4} matches text[i .. i + SSN_CHARS - 1]
SSN_CHARS == 11
SsnShapeAt(text, i) ==
    /\ i + SSN_CHARS - 1 <= Len(text)
    /\ \A k \in 0..(SSN_CHARS - 1) :
          IF k \in {3, 6} THEN text[i + k] = "-" ELSE IsDigit(text[i + k])

\* nine digits in a row between word boundaries, no dashes
SSN_PATTERN_undashed(text) ==
    \E i \in 1..Len(text) :
        /\ WordBoundary(text, i)
        /\ i + 8 <= Len(text)
        /\ \A k \in 0..8 : IsDigit(text[i + k])
        /\ WordBoundary(text, i + 9)

\* SSN_PATTERN.search(text)
SSN_PATTERN(text) ==
    \E i \in 1..Len(text) :
        /\ WordBoundary(text, i)
        /\ SsnShapeAt(text, i)
        /\ WordBoundary(text, i + SSN_CHARS)

\* CC_PATTERN.search(text): 13 to 16 groups of a digit followed by any
\* number of spaces and dashes, between word boundaries
CC_MIN_DIGITS == 13
CC_MAX_DIGITS == 16
CC_PATTERN(text) ==
    \E i \in 1..Len(text) : \E j \in i..Len(text) :
        /\ WordBoundary(text, i)
        /\ IsDigit(text[i])
        /\ \A k \in i..j : IsDigit(text[k]) \/ text[k] \in {" ", "-"}
        /\ Cardinality({k \in i..j : IsDigit(text[k])})
              \in CC_MIN_DIGITS..CC_MAX_DIGITS
        /\ WordBoundary(text, j + 1)

INTERNAL_MARKERS ==
    <<<<"i", "n", "t", "e", "r", "n", "a", "l", " ", "u", "s", "e", " ", "o", "n",
        "l", "y">>,
      <<"d", "o", " ", "n", "o", "t", " ", "d", "i", "s", "t", "r", "i", "b", "u",
        "t", "e">>,
      <<"c", "o", "n", "f", "i", "d", "e", "n", "t", "i", "a", "l">>,
      <<"n", "o", "n", "-", "d", "i", "s", "c", "l", "o", "s", "u", "r", "e">>,
      <<"n", "d", "a">>,
      <<"f", "o", "r", " ", "i", "n", "t", "e", "r", "n", "a", "l", " ", "d", "i",
        "c", "u", "s", "s", "i", "o", "n">>,
      <<"c", "o", "m", "p", "a", "n", "y", " ", "c", "o", "n", "f", "i", "d", "e",
        "n", "t", "i", "a", "l">>,
      <<"p", "r", "o", "p", "r", "i", "e", "t", "a", "r", "y">>>>

UNSAFE_KEYWORDS ==
    <<<<"c", "h", "i", "l", "d", " ", "s", "e", "x", "u", "a", "l">>,
      <<"e", "x", "p", "l", "o", "i", "t">>,
      <<"m", "o", "l", "e", "s", "t">>,
      <<"k", "i", "l", "l", " ", "t", "h", "e", "m", " ", "a", "l", "l">>,
      <<"h", "o", "w", " ", "t", "o", " ", "m", "a", "k", "e", " ", "a", " ", "b",
        "o", "m", "b">>,
      <<"j", "o", "i", "n", " ", "i", "s", "i", "s">>>>

\* re.compile(rf"\b{re.escape(word)}\b").search(text)
word_search(word, text) ==
    \E i \in 1..Len(text) :
        /\ i + Len(word) - 1 <= Len(text)
        /\ SubSeq(text, i, i + Len(word) - 1) = word
        /\ WordBoundary(text, i)
        /\ WordBoundary(text, i + Len(word))

any_search(words, text) ==
    \E w \in 1..Len(words) : word_search(words[w], text)

\* a sequence of characters as a run-length encoded string: one run from
\* each position that differs from the character before it
Encode(text) ==
    LET starts == {i \in 1..Len(text) : i = 1 \/ text[i] # text[i - 1]}
        start(k) == IF k > Cardinality(starts) THEN Len(text) + 1
                    ELSE CHOOSE i \in starts :
                            Cardinality({j \in starts : j <= i}) = k
    IN [k \in 1..Cardinality(starts) |->
          Run(text[start(k)], start(k + 1) - start(k))]

\* text[:200].replace("\n", " ")
SNIPPET_CHARS == 200
detector_snippet(text) ==
    LET head == SubSeq(text, 1, Min(SNIPPET_CHARS, Len(text)))
    IN Encode([i \in 1..Len(head) |-> IF head[i] = "\n" THEN " " ELSE head[i]])

\* DetectorSignals() (models.py)
DetectorSignals ==
    [has_pii |-> FALSE, pii_hits |-> <<>>, has_unsafe_pattern |-> FALSE,
     unsafe_hits |-> <<>>, has_internal_markers |-> FALSE, notes |-> <<>>]

\* the body of the loop over pages.items() for one page
detect_page(sig, page, text) ==
    LET pii == SSN_PATTERN(text) \/ CC_PATTERN(text)
        internal == any_search(INTERNAL_MARKERS, lower(text))
        unsafe == any_search(UNSAFE_KEYWORDS, lower(text))
    IN [has_pii |-> sig.has_pii \/ pii,
        pii_hits |->
            IF pii THEN Append(sig.pii_hits,
                               Citation(Some(page), detector_snippet(text),
                                        None, None, Some("detector_pii")))
            ELSE sig.pii_hits,
        has_internal_markers |-> sig.has_internal_markers \/ internal,
        notes |->
            IF internal THEN Append(sig.notes,
                                    [text |-> "Internal marker on page",
                                     page |-> page])
            ELSE sig.notes,
        has_unsafe_pattern |-> sig.has_unsafe_pattern \/ unsafe,
        unsafe_hits |->
            IF unsafe THEN Append(sig.unsafe_hits,
                                  Citation(Some(page), detector_snippet(text),
                                           None, None, Some("detector_unsafe")))
            ELSE sig.unsafe_hits]

\* pages is the dict in insertion order: a sequence of [page, text] items
RECURSIVE detect_from(_, _)
detect_from(items, sig) ==
    IF items = <<>> THEN sig
    ELSE detect_from(Tail(items),
                     detect_page(sig, Head(items).page, Head(items).text))

run_detectors(pages) == detect_from(pages, DetectorSignals)

(***************************************************************************)
(* Inputs: detector signals, images, flow configurations, model behaviour  *)
(***************************************************************************)
\* snippets: "a", " a", and long ones that differ only past the key length
SnipA == Str("a")
SnipPadA == <<Run(" ", 1), Run("a", 1)>>
SnipPadLongB == <<Run(" ", 1), Run("a", SNIPPET_KEY_CHARS - 1), Run("b", 1)>>
SnipPadLongC == <<Run(" ", 1), Run("a", SNIPPET_KEY_CHARS - 1), Run("c", 1)>>
SnipLongB == <<Run("a", SNIPPET_KEY_CHARS), Run("b", 1)>>
SnipLongC == <<Run("a", SNIPPET_KEY_CHARS), Run("c", 1)>>
SnipSsn == <<Run("S", 2), Run("N", 1)>>
SnipBomb == Str("x")

\* detector hits as run_detectors builds them, one per page; callers may
\* also hand in a list that repeats a hit
MaxHits == 4
PiiHit(page) == Citation(Some(page), SnipSsn, None, None, Some("detector_pii"))
UnsafeHit(page) == Citation(Some(page), SnipBomb, None, None, Some("detector_unsafe"))
ManyPiiHits == [i \in 1..MaxHits |-> PiiHit(IF i = 1 THEN 1 ELSE i - 1)]
HitLists ==
    {[pii |-> <<>>, unsafe |-> <<>>],
     [pii |-> <<>>, unsafe |-> <<UnsafeHit(2)>>],
     [pii |-> ManyPiiHits, unsafe |-> <<UnsafeHit(2)>>]}

SignalSet ==
    {[has_pii |-> p, pii_hits |-> h.pii, has_unsafe_pattern |-> u,
      unsafe_hits |-> h.unsafe, has_internal_markers |-> m, notes |-> <<>>] :
        p \in BOOLEAN, u \in BOOLEAN, m \in BOOLEAN, h \in HitLists}

ImageSets == {<<>>, <<[page |-> 1, index |-> 0]>>}

\* a node of the flow with every optional key at its default
Node(id) ==
    [id |-> id, prompt |-> id, runner |-> "text",
     conditions |-> [has_images |-> FALSE, signals_true |-> {}, signals_false |-> {}],
     depends_on |-> {}, use_summary_pages |-> FALSE, collect_summary |-> FALSE,
     stop_if |-> <<>>, stop_on_error |-> None, final_node |-> FALSE]

\* every node halts the flow on its error, whatever its stop_on_error key
StopOnAnyError(node) == TRUE

\* node.get("stop_on_error", False): a node halts on its error only when told
StopOnErrorIfSet(node) ==
    ~IsNone(node.stop_on_error) /\ Val(node.stop_on_error)

\* node.get("stop_on_error", True)
StopOnError(node) ==
    IF IsNone(node.stop_on_error) THEN TRUE ELSE Val(node.stop_on_error)

KnownPrompts ==
    {"image_analysis", "pii_scan", "unsafe_scan", "confidentiality_scan",
     "final_decision", "summarize_pages"}

ScanFlow ==
    << [Node("image_analysis") EXCEPT
            !.runner = "multimodal", !.conditions.has_images = TRUE,
            !.stop_on_error = Some(FALSE)],
       [Node("pii_scan") EXCEPT
            !.conditions.signals_true = {"has_pii"},
            !.stop_on_error = Some(FALSE)],
       [Node("unsafe_scan") EXCEPT
            !.stop_if = <<[path |-> <<"unsafe">>, equals |-> Some(JBool(TRUE))]>>],
       [Node("final_decision") EXCEPT
            !.depends_on = {"unsafe_scan"}, !.final_node = TRUE] >>

SummaryFlow ==
    << [Node("summary") EXCEPT
            !.prompt = "summarize_pages", !.collect_summary = TRUE,
            !.stop_on_error = Some(FALSE)],
       [Node("summary_refine") EXCEPT
            !.prompt = "summarize_pages", !.collect_summary = TRUE,
            !.use_summary_pages = TRUE, !.stop_on_error = Some(FALSE)],
       [Node("confidentiality_scan") EXCEPT
            !.depends_on = {"summary"}, !.use_summary_pages = TRUE,
            !.conditions.signals_false = {"has_unsafe_pattern"}],
       [Node("final_decision") EXCEPT
            !.depends_on = {"confidentiality_scan"}] >>

\* a flow in which every node is gated: the image node has no has_images
\* condition and is passed over at line 135, the PII node halts the flow on a
\* first span, an early terminal node that tolerates its own failure decides
\* documents with the unsafe signal, and the last two nodes form a chain of
\* dependencies on the PII node
GuardedFlow ==
    << [Node("image_analysis") EXCEPT
            !.runner = "multimodal", !.stop_on_error = Some(FALSE)],
       [Node("pii_scan") EXCEPT
            !.conditions.signals_true = {"has_pii"},
            !.stop_if = <<[path |-> <<"pii_spans", "0">>, equals |-> None]>>,
            !.stop_on_error = Some(FALSE)],
       [Node("early_decision") EXCEPT
            !.prompt = "final_decision",
            !.conditions.signals_true = {"has_unsafe_pattern"},
            !.final_node = TRUE, !.stop_on_error = Some(FALSE)],
       [Node("confidentiality_scan") EXCEPT !.depends_on = {"pii_scan"}],
       [Node("final_decision") EXCEPT
            !.depends_on = {"confidentiality_scan"}, !.final_node = TRUE] >>

\* a flow that names two prompts the library does not have: the first node
\* tolerates its error, the third has the default stop_on_error
StaleFlow ==
    << [Node("precheck") EXCEPT !.stop_on_error = Some(FALSE)],
       Node("unsafe_scan"),
       [Node("triage") EXCEPT !.prompt = "triage_v2"],
       [Node("final_decision") EXCEPT !.final_node = TRUE] >>

Flows == {ScanFlow, SummaryFlow, GuardedFlow, StaleFlow}

\* page texts: the SSN shape alone, inside a sentence, glued to a letter or to
\* a digit, inside a run of digits long enough for the card pattern, a card
\* number, a marker and a keyword on two lines, a text without any pattern,
\* and the SSN shape across the 200th character of a page
TextSsn ==
    <<"1", "2", "3", "-", "4", "5", "-", "6", "7", "8", "9">>
TextSsnInSentence ==
    <<"S", "S", "N", ":", " ", "1", "2", "3", "-", "4",
     "5", "-", "6", "7", "8", "9", ".">>
TextSsnAfterLetter ==
    <<"A", "1", "2", "3", "-", "4", "5", "-", "6", "7",
     "8", "9">>
TextSsnBeforeDigit ==
    <<"1", "2", "3", "-", "4", "5", "-", "6", "7", "8",
     "9", "0">>
TextSsnInDigitRun ==
    <<"1", "1", "2", "3", "-", "4", "5", "-", "6", "7",
     "8", "9", "0", "1", "2", "3", "4">>
TextCard ==
    <<"4", "1", "1", "1", " ", "1", "1", "1", "1", " ", "1", "1",
     "1", "1", " ", "1", "1", "1", "1">>
TextMemo ==
    <<"U", "n", "d", "e", "r", " ", "N", "D", "A", "\n", "E",
     "x", "p", "l", "o", "i", "t">>
TextPlain ==
    <<"h", "e", "l", "l", "o">>
TextLong == [i \in 1..(SNIPPET_CHARS - 5) |-> "x"] \o <<" ">> \o TextSsn

PageTexts ==
    {TextSsn, TextSsnInSentence, TextSsnAfterLetter, TextSsnBeforeDigit,
     TextSsnInDigitRun, TextCard, TextMemo, TextPlain, TextLong}

\* page maps of up to MaxPages pages, in either insertion order
MaxPages == 2
PageMaps ==
    {m \in UNION {[1..n -> [page : 1..MaxPages, text : PageTexts]] :
                    n \in 0..MaxPages} :
        \A i, j \in 1..Len(m) : i # j => m[i].page # m[j].page}

\* the pages of the document classify_document is called on
ClassifiedPages == <<[page |-> 1, text |-> TextSsnInSentence]>>

\* what a transport call does: it raises, or it returns a JSON value
Raises(message) == [raises |-> TRUE, message |-> message]
Returns(output) == [raises |-> FALSE, output |-> output]

Span(page, text) == JDict([page |-> page, text |-> JText(text)])
Cite(page, snippet) == JDict([page |-> page, snippet |-> JText(snippet)])

ImageOutputs ==
    {JDict([findings |-> JList(<<
        JDict([description |-> JText(SnipA), page |-> JNum(1),
               image_index |-> JNum(0),
               regions_of_concern |-> JList(<<JText(Str("t")), JText(Str("l"))>>)])
     >>)])}

PiiOutputs ==
    {JDict([pii_spans |-> JList(<<>>)]),
     JDict([pii_spans |-> JList(<<Span(JNum(1), SnipA), Span(JNum(1), SnipPadA)>>)]),
     JDict([pii_spans |-> JList(<<Span(JNum(1), SnipPadLongB),
                                  Span(JNum(1), SnipPadLongC)>>)]),
     JDict([pii_spans |-> JList(<<Span(JNum(1), SnipLongB), Span(JNum(1), SnipLongC),
                                  Span(JStr("one"), SnipA)>>)])}

UnsafeOutputs ==
    {JDict([unsafe |-> JBool(FALSE), citations |-> JList(<<>>)]),
     JDict([unsafe |-> JBool(TRUE),
            citations |-> JList(<<Span(JNum(2), SnipBomb)>>)])}

SummaryOutputs ==
    {JList(<<JDict([page |-> JNum(1), summary |-> JText(Str("s"))]),
             JDict([page |-> JNum(1), summary |-> JText(Str("t"))])>>),
     JList(<<JDict([page |-> JNum(2), summary |-> JText(Str("u"))]),
             JDict([page |-> JNum(1), summary |-> JText(EmptyStr)]),
             JDict([page |-> JNum(0), summary |-> JText(Str("z"))])>>),
     JList(<<JDict([page |-> JList(<<JNum(1)>>), summary |-> JText(Str("s"))])>>),
     JDict([summary |-> JText(Str("s"))])}

ConfidentialityOutputs ==
    {JDict([citations |-> JList(<<Cite(JNum(1), SnipA)>>)]),
     JNull}

FinalOutputs ==
    {JDict([final_category |-> JStr("Public"), confidence |-> JStr(NumericText),
            secondary_tags |-> JList(<<>>), explanation |-> JStr("ok"),
            citations |-> JList(<<Cite(JNum(1), SnipA), Cite(JNum(1), SnipPadA)>>)]),
     JDict([final_category |-> JStr("Confidential"), confidence |-> JNum(78)]),
     JDict([final_category |-> JStr("Highly Sensitive"), confidence |-> JNum(150)]),
     JDict([final_category |-> JStr("Unsafe"), confidence |-> JNum(-10)]),
     JDict([final_category |-> JStr("Secret"), confidence |-> JNum(90)]),
     JDict([final_category |-> JNull, confidence |-> JNum(90)]),
     JDict([confidence |-> JNum(90)]),
     JDict([final_category |-> JStr("Unsafe"), confidence |-> JStr("high")]),
     JDict([final_category |-> JStr("Public"), confidence |-> JNum(90),
            citations |-> JNull]),
     JDict([final_category |-> JStr("Public"), confidence |-> JNum(90),
            secondary_tags |-> JNull]),
     EmptyDict,
     JStr(EncodedVerdict),
     JStr("n/a")}

NodeOutputs(node_id) ==
    CASE node_id = "image_analysis" -> ImageOutputs
      [] node_id = "pii_scan" -> PiiOutputs
      [] node_id = "unsafe_scan" -> UnsafeOutputs
      [] node_id \in {"summary", "summary_refine"} -> SummaryOutputs
      [] node_id = "confidentiality_scan" -> ConfidentialityOutputs
      [] OTHER -> FinalOutputs

TransportBehaviours(node_id) ==
    {Raises("Gemini call failed")} \cup {Returns(o) : o \in NodeOutputs(node_id)}

Answer(form, value) ==
    [raises |-> FALSE, candidates |-> TRUE, finish_reason |-> JNum(FINISH_STOP),
     form |-> form, value |-> value]

SecondaryBehaviours ==
    {[raises |-> TRUE, message |-> "deadline exceeded"],
     [raises |-> FALSE, candidates |-> FALSE, finish_reason |-> JNull,
      form |-> "prose", value |-> JNull],
     [raises |-> FALSE, candidates |-> TRUE, finish_reason |-> JNum(3),
      form |-> "prose", value |-> JNull],
     Answer("wrapped_bad", JNull),
     Answer("prose", JNull),
     Answer("json", JDict([Sensitivity |-> JStr("Public"), Confidence |-> JNum(85),
                           Reasoning |-> JStr("no PII"),
                           Critical_info |-> JList(<<JStr("SSN")>>),
                           Content_safety |-> SAFE_FOR_KIDS])),
     Answer("wrapped", JDict([Sensitivity |-> JStr("Highly Sensitive"),
                              Confidence |-> JNum(95),
                              Reasoning |-> JStr("SSN on page 1"),
                              Content_safety |-> JStr("Contains violent imagery")])),
     Answer("json", JDict([Sensitivity |-> JStr("Unsafe"), Confidence |-> JNum(120),
                           Reasoning |-> JStr("threats")])),
     Answer("json", JDict([Sensitivity |-> JStr("Confidential")])),
     Answer("json", JDict([Sensitivity |-> JStr("Sensitive"),
                           Confidence |-> JNum(85)])),
     Answer("json", JDict([Sensitivity |-> JStr("Public"),
                           Confidence |-> JStr("high")])),
     Answer("json", JDict([Sensitivity |-> JStr("Unsafe"), Confidence |-> JNum(95),
                           Reasoning |-> JNull])),
     Answer("json", JDict([error |-> JStr("model overloaded"),
                           Sensitivity |-> JStr("Unsafe"),
                           Content_safety |-> JStr("Contains violent imagery")])),
     Answer("json", JList(<<>>)),
     Answer("json", JNull)}

(***************************************************************************)
(* classify_document as a state machine                                    *)
(***************************************************************************)
VARIABLES
    pages,            \* the pages argument: [page, text] items in dict order
    signals,          \* the DetectorSignals argument
    images_data,      \* the images_data argument
    flow,             \* get_prompt_flow()
    pc,               \* "flow", "resolve", "second_opinion", "assemble",
                      \* "returned", "raised"
    idx,              \* position of the loop over the flow
    flow_outputs,     \* node id -> recorded output
    prompt_errors,
    summary_pages,
    audit_citations,
    final_node_id,    \* Optional node id
    calls,            \* history: the nodes invoked, whether the call raised
                      \* and the page map of the payload
    verdict,          \* Optional prompt_tree_result (with its Citation list)
    response,         \* history: Optional behaviour of the secondary model
    gemini_result,    \* Optional result of get_gemini_reasoning
    result,           \* Optional ClassificationResult
    error,            \* Optional exception classify_document raised
    runs,             \* concurrent calls: call -> its local variables
    heap,             \* concurrent calls: object -> its contents
    job,              \* batch job: the entry of JOBS
    workers,          \* batch job: document -> the worker processing it
    batch             \* batch job: position of process_batch_job

vars == <<pages, signals, images_data, flow, pc, idx, flow_outputs, prompt_errors,
          summary_pages, audit_citations, final_node_id, calls, verdict,
          response, gemini_result, result, error, runs, heap,
          job, workers, batch>>

NoOutputs == [k \in {} |-> JNull]

Init ==
    /\ pages = ClassifiedPages
    /\ signals \in SignalSet
    /\ images_data \in ImageSets
    /\ flow \in Flows
    /\ pc = "flow"
    /\ idx = 1
    /\ flow_outputs = NoOutputs
    /\ prompt_errors = <<>>
    /\ summary_pages = NoOutputs
    /\ audit_citations = <<>>
    /\ final_node_id = None
    /\ calls = <<>>
    /\ verdict = None
    /\ response = None
    /\ gemini_result = None
    /\ result = None
    /\ error = None
    /\ runs = <<>>
    /\ heap = <<>>
    /\ job = <<>>
    /\ workers = <<>>
    /\ batch = "none"

\* the loop moves to the next node, or ends when the flow is exhausted
Advance ==
    /\ idx' = idx + 1
    /\ pc' = IF idx + 1 > Len(flow) THEN "resolve" ELSE "flow"

\* break
Break ==
    /\ idx' = idx
    /\ pc' = "resolve"

\* lines 128-136: the node is skipped
Skipped(node) ==
    \/ ~should_run_node(node, signals, images_data)
    \/ ~dependencies_ready(node, flow_outputs)
    \/ (node.runner = "multimodal" /\ images_data = <<>>)

SkipNode ==
    /\ pc = "flow"
    /\ Skipped(flow[idx])
    /\ Advance
    /\ UNCHANGED <<job, workers, batch, runs, heap, pages, signals, images_data, flow, flow_outputs, prompt_errors,
                   summary_pages, audit_citations, final_node_id, calls,
                   verdict, response, gemini_result, result, error>>

\* every prompt name taken as known to the library
node_output_any_prompt(node, behaviour) ==
    IF ~behaviour.raises THEN behaviour.output
    ELSE IF node.runner = "multimodal"
        THEN ErrorMarker(behaviour.message, node.id)
    ELSE ErrorMarker(behaviour.message, node.prompt)

\* lines 133-155: the output of the node for one behaviour of the transport
node_output(node, behaviour) ==
    IF node.prompt \notin KnownPrompts
        THEN ErrorMarker("KeyError", node.id)
    ELSE IF ~behaviour.raises THEN behaviour.output
    ELSE IF node.runner = "multimodal"
        THEN ErrorMarker(behaviour.message, node.id)
    ELSE ErrorMarker(behaviour.message, node.prompt)

\* the output replaces the map instead of being added to it
record_output_alone(outputs, node_id, output) == (node_id :> output)

\* line 157: flow_outputs[node_id] = output
record_output(outputs, node_id, output) == (node_id :> output) @@ outputs

\* lines 137-176: one iteration of the loop for a node that is invoked
RunNode ==
    /\ pc = "flow"
    /\ ~Skipped(flow[idx])
    /\ \E behaviour \in TransportBehaviours(flow[idx].id) :
        LET node == flow[idx]
            node_id == node.id
            output == node_output(node, behaviour)
            failed == output_has_error(output)
            summary == IF node.collect_summary
                       THEN update_summary_pages(output, summary_pages)
                       ELSE [raised |-> FALSE, pages |-> summary_pages]
        IN /\ calls' = Append(calls,
                 [id |-> node_id,
                  raised |-> node.prompt \in KnownPrompts /\ behaviour.raises,
                  sent |-> IF node.runner = "multimodal" THEN None
                           ELSE Some(payload_pages(
                                    override_pages(node, summary_pages), pages))])
           /\ flow_outputs' = record_output(flow_outputs, node_id, output)
           /\ audit_citations' =
                 IF failed THEN audit_citations
                 ELSE audit_citations \o collect_citations(node_id, output)
           /\ prompt_errors' =
                 IF failed THEN Append(prompt_errors, node_id) ELSE prompt_errors
           /\ IF failed /\ StopOnError(node)
                THEN /\ final_node_id' = Some(node_id)
                     /\ Break
                     /\ UNCHANGED <<summary_pages, error>>
              ELSE IF summary.raised
                THEN /\ pc' = "raised"
                     /\ error' = Some("TypeError")
                     /\ UNCHANGED <<idx, summary_pages, final_node_id>>
              ELSE /\ summary_pages' = summary.pages
                   /\ UNCHANGED error
                   /\ IF stop_conditions_met(node, output) \/ is_final_node(node)
                        THEN final_node_id' = Some(node_id) /\ Break
                      ELSE UNCHANGED final_node_id /\ Advance
    /\ UNCHANGED <<job, workers, batch, runs, heap, pages, signals, images_data, flow, verdict, response, gemini_result,
                   result>>

\* the scan in declared order: the first node of the flow that has an output
first_with_output(nodes, outputs, i) ==
    LET with == {k \in 1..i : nodes[k].id \in DOMAIN outputs}
    IN IF with = {} THEN None
       ELSE Some(nodes[CHOOSE k \in with : \A m \in with : k <= m].id)

\* lines 178-183: the last node of the flow that has an output
RECURSIVE last_with_output(_, _, _)
last_with_output(nodes, outputs, i) ==
    IF i = 0 THEN None
    ELSE IF nodes[i].id \in DOMAIN outputs THEN Some(nodes[i].id)
    ELSE last_with_output(nodes, outputs, i - 1)

\* lines 178-250
Resolve ==
    /\ pc = "resolve"
    /\ LET terminal == IF IsNone(final_node_id)
                       THEN last_with_output(flow, flow_outputs, Len(flow))
                       ELSE final_node_id
           final_out == IF ~IsNone(terminal) /\ Val(terminal) \in DOMAIN flow_outputs
                        THEN flow_outputs[Val(terminal)] ELSE JNull
           resolved == resolve_verdict(final_out, signals, audit_citations)
       IN /\ final_node_id' = terminal
          /\ verdict' = Some(resolved.verdict)
          /\ audit_citations' = resolved.audit
          /\ signals' = resolved.signals
    /\ pc' = "second_opinion"
    /\ UNCHANGED <<job, workers, batch, runs, heap, pages, images_data, flow, idx, flow_outputs, prompt_errors,
                   summary_pages, calls, response, gemini_result, result, error>>

\* lines 252-258
SecondOpinion ==
    /\ pc = "second_opinion"
    /\ \E behaviour \in SecondaryBehaviours :
        /\ response' = Some(behaviour)
        /\ gemini_result' = Some(get_gemini_reasoning(behaviour))
    /\ pc' = "assemble"
    /\ UNCHANGED <<job, workers, batch, runs, heap, pages, signals, images_data, flow, idx, flow_outputs, prompt_errors,
                   summary_pages, audit_citations, final_node_id, calls, verdict,
                   result, error>>

\* lines 262-317
Assemble ==
    /\ pc = "assemble"
    /\ LET built == assemble(Val(verdict), Val(gemini_result), signals,
                             prompt_errors, flow_outputs)
       IN IF built.raised
            THEN /\ pc' = "raised"
                 /\ error' = Some(built.error)
                 /\ UNCHANGED result
          ELSE /\ pc' = "returned"
               /\ result' = Some(built.result)
               /\ UNCHANGED error
    /\ UNCHANGED <<job, workers, batch, runs, heap, pages, signals, images_data, flow, idx, flow_outputs, prompt_errors,
                   summary_pages, audit_citations, final_node_id, calls, verdict,
                   response, gemini_result>>

Next == SkipNode \/ RunNode \/ Resolve \/ SecondOpinion \/ Assemble

Spec == Init /\ [][Next]_vars

(***************************************************************************)
(* run_detectors on its own: the call that precedes classify_document      *)
(***************************************************************************)
DetectInit ==
    /\ pages \in PageMaps
    /\ signals = DetectorSignals
    /\ images_data = <<>>
    /\ flow = ScanFlow
    /\ pc = "detect"
    /\ idx = 1
    /\ flow_outputs = NoOutputs
    /\ prompt_errors = <<>>
    /\ summary_pages = NoOutputs
    /\ audit_citations = <<>>
    /\ final_node_id = None
    /\ calls = <<>>
    /\ verdict = None
    /\ response = None
    /\ gemini_result = None
    /\ result = None
    /\ error = None
    /\ runs = <<>>
    /\ heap = <<>>
    /\ job = <<>>
    /\ workers = <<>>
    /\ batch = "none"

RunDetectors ==
    /\ pc = "detect"
    /\ signals' = run_detectors(pages)
    /\ pc' = "detected"
    /\ UNCHANGED <<job, workers, batch, runs, heap, pages, images_data, flow, idx, flow_outputs, prompt_errors,
                   summary_pages, audit_citations, final_node_id, calls,
                   verdict, response, gemini_result, result, error>>

DetectNext == RunDetectors

DetectSpec == DetectInit /\ [][DetectNext]_vars

(***************************************************************************)
(* Two classify_document calls for two documents, interleaved as the       *)
(* worker pool of process_batch_job interleaves them. The lists and dicts  *)
(* a call creates at lines 118-121 are objects of a heap the calls share;  *)
(* a call reaches them through the references it holds. The flow is the    *)
(* one configuration both calls read.                                      *)
(***************************************************************************)
RunIds == {1, 2}

ObjectNames ==
    {"prompt_errors", "summary_pages", "flow_outputs", "audit_citations"}

\* one object for all the calls, as a module-level list or dict would be
shared_object(run, name) == <<1, name>>

\* lines 118-121: each call evaluates the displays [] and {} anew
new_object(run, name) == <<run, name>>

\* document d has the single page d: its detector hits and whatever the
\* models answer about it cite that page
DocPages(d) == <<[page |-> d, text |-> TextPlain]>>

DocSignals(d) ==
    [has_pii |-> TRUE, pii_hits |-> <<PiiHit(d)>>, has_unsafe_pattern |-> FALSE,
     unsafe_hits |-> <<>>, has_internal_markers |-> FALSE, notes |-> <<>>]

DocImages(d) == <<[page |-> d, index |-> 0]>>

DocOutput(d, node_id) ==
    CASE node_id = "image_analysis" ->
            JDict([findings |-> JList(<<
                JDict([description |-> JText(SnipA), page |-> JNum(d),
                       image_index |-> JNum(0)])>>)])
      [] node_id = "pii_scan" -> JDict([pii_spans |-> JList(<<>>)])
      [] node_id = "unsafe_scan" ->
            JDict([unsafe |-> JBool(FALSE),
                   citations |-> JList(<<Span(JNum(d), SnipBomb)>>)])
      [] node_id \in {"summary", "summary_refine"} ->
            JList(<<JDict([page |-> JNum(d), summary |-> JText(Str("s"))])>>)
      [] node_id = "confidentiality_scan" ->
            JDict([citations |-> JList(<<Cite(JNum(d), SnipA)>>)])
      [] OTHER ->
            JDict([final_category |-> JStr("Confidential"),
                   confidence |-> JNum(90), secondary_tags |-> JList(<<>>),
                   explanation |-> JStr("ok"),
                   citations |-> JList(<<Cite(JNum(d), SnipPadA)>>)])

DocBehaviours(d, node_id) ==
    {Raises("Gemini call failed"), Returns(DocOutput(d, node_id))}

DocSecondaryBehaviours ==
    {[raises |-> TRUE, message |-> "deadline exceeded"],
     Answer("json", JDict([Sensitivity |-> JStr("Confidential"),
                           Confidence |-> JNum(85),
                           Reasoning |-> JStr("internal memo")]))}

\* a step that asks no model has no reply to record
NoReply == [raises |-> FALSE, output |-> JNull]

\* lines 110-123: the local variables of a call on document d; refs are the
\* references to the objects it created
InitialLocals(run, d) ==
    [doc |-> d, pages |-> DocPages(d), signals |-> DocSignals(d),
     images_data |-> DocImages(d),
     refs |-> [name \in ObjectNames |-> new_object(run, name)],
     pc |-> "flow", idx |-> 1, final_node_id |-> None, calls |-> <<>>,
     verdict |-> None, gemini_result |-> None, result |-> None,
     error |-> None, replies |-> <<>>]

EmptyObjects ==
    [prompt_errors |-> <<>>, summary_pages |-> NoOutputs,
     flow_outputs |-> NoOutputs, audit_citations |-> <<>>]

\* lines 128-136 for the locals loc and the objects objs of one call
skipped_in(node, loc, objs) ==
    \/ ~should_run_node(node, loc.signals, loc.images_data)
    \/ ~dependencies_ready(node, objs.flow_outputs)
    \/ (node.runner = "multimodal" /\ loc.images_data = <<>>)

advance(loc, nodes) ==
    [loc EXCEPT !.idx = @ + 1,
                !.pc = IF loc.idx + 1 > Len(nodes) THEN "resolve" ELSE "flow"]

\* lines 137-176 for one call
run_node(loc, objs, nodes, behaviour) ==
    LET node == nodes[loc.idx]
        node_id == node.id
        output == node_output(node, behaviour)
        failed == output_has_error(output)
        summary == IF node.collect_summary
                   THEN update_summary_pages(output, objs.summary_pages)
                   ELSE [raised |-> FALSE, pages |-> objs.summary_pages]
        recorded ==
            [objs EXCEPT
                !.flow_outputs = record_output(@, node_id, output),
                !.audit_citations =
                    IF failed THEN @ ELSE @ \o collect_citations(node_id, output),
                !.prompt_errors = IF failed THEN Append(@, node_id) ELSE @]
        called ==
            [loc EXCEPT !.calls = Append(@,
                [id |-> node_id,
                 raised |-> node.prompt \in KnownPrompts /\ behaviour.raises,
                 sent |-> IF node.runner = "multimodal" THEN None
                          ELSE Some(payload_pages(
                                   override_pages(node, objs.summary_pages),
                                   loc.pages))])]
        halted == [called EXCEPT !.final_node_id = Some(node_id),
                                 !.pc = "resolve"]
    IN IF failed /\ StopOnError(node)
           THEN [loc |-> halted, objs |-> recorded]
       ELSE IF summary.raised
           THEN [loc |-> [called EXCEPT !.pc = "raised",
                                        !.error = Some("TypeError")],
                 objs |-> recorded]
       ELSE LET merged == [recorded EXCEPT !.summary_pages = summary.pages]
            IN IF stop_conditions_met(node, output) \/ is_final_node(node)
                   THEN [loc |-> halted, objs |-> merged]
               ELSE [loc |-> advance(called, nodes), objs |-> merged]

\* lines 178-250 for one call
resolve(loc, objs, nodes) ==
    LET terminal == IF IsNone(loc.final_node_id)
                    THEN last_with_output(nodes, objs.flow_outputs, Len(nodes))
                    ELSE loc.final_node_id
        final_out == IF ~IsNone(terminal)
                            /\ Val(terminal) \in DOMAIN objs.flow_outputs
                     THEN objs.flow_outputs[Val(terminal)] ELSE JNull
        resolved == resolve_verdict(final_out, loc.signals, objs.audit_citations)
    IN [loc |-> [loc EXCEPT !.final_node_id = terminal,
                            !.verdict = Some(resolved.verdict),
                            !.signals = resolved.signals,
                            !.pc = "second_opinion"],
        objs |-> [objs EXCEPT !.audit_citations = resolved.audit]]

\* lines 252-258 for one call
second_opinion(loc, objs, behaviour) ==
    [loc |-> [loc EXCEPT !.gemini_result = Some(get_gemini_reasoning(behaviour)),
                         !.pc = "assemble"],
     objs |-> objs]

\* lines 262-317 for one call
assemble_result(loc, objs) ==
    LET built == assemble(Val(loc.verdict), Val(loc.gemini_result), loc.signals,
                          objs.prompt_errors, objs.flow_outputs)
    IN [loc |-> IF built.raised
                    THEN [loc EXCEPT !.pc = "raised", !.error = Some(built.error)]
                ELSE [loc EXCEPT !.pc = "returned",
                                 !.result = Some(built.result)],
        objs |-> objs]

\* the next step of a call, given the reply of the model it asks, if any
classify_step(loc, objs, nodes, reply) ==
    LET next ==
            CASE loc.pc = "flow" ->
                    IF skipped_in(nodes[loc.idx], loc, objs)
                        THEN [loc |-> advance(loc, nodes), objs |-> objs]
                    ELSE run_node(loc, objs, nodes, reply)
              [] loc.pc = "resolve" -> resolve(loc, objs, nodes)
              [] loc.pc = "second_opinion" -> second_opinion(loc, objs, reply)
              [] loc.pc = "assemble" -> assemble_result(loc, objs)
    IN [loc |-> [next.loc EXCEPT !.replies = Append(@, reply)],
        objs |-> next.objs]

\* the replies the step may get
Replies(loc, objs, nodes) ==
    IF loc.pc = "flow" /\ ~skipped_in(nodes[loc.idx], loc, objs)
        THEN DocBehaviours(loc.doc, nodes[loc.idx].id)
    ELSE IF loc.pc = "second_opinion" THEN DocSecondaryBehaviours
    ELSE {NoReply}

\* the objects a call reaches through its references
Objects(loc) == [name \in ObjectNames |-> heap[loc.refs[name]]]

ConcurrentInit ==
    /\ runs = [run \in RunIds |-> InitialLocals(run, run)]
    /\ heap = [ref \in {new_object(run, name) :
                            run \in RunIds, name \in ObjectNames} |->
                   EmptyObjects[ref[2]]]
    /\ flow \in Flows
    /\ pages = <<>>
    /\ signals = DetectorSignals
    /\ images_data = <<>>
    /\ pc = "concurrent"
    /\ idx = 1
    /\ flow_outputs = NoOutputs
    /\ prompt_errors = <<>>
    /\ summary_pages = NoOutputs
    /\ audit_citations = <<>>
    /\ final_node_id = None
    /\ calls = <<>>
    /\ verdict = None
    /\ response = None
    /\ gemini_result = None
    /\ result = None
    /\ error = None
    /\ job = <<>>
    /\ workers = <<>>
    /\ batch = "none"

\* one step of one of the calls: it reads and writes its locals and the
\* objects it references
ClassifyStep(run) ==
    /\ runs[run].pc \in {"flow", "resolve", "second_opinion", "assemble"}
    /\ \E reply \in Replies(runs[run], Objects(runs[run]), flow) :
        LET next == classify_step(runs[run], Objects(runs[run]), flow, reply)
        IN /\ runs' = [runs EXCEPT ![run] = next.loc]
           /\ heap' = [ref \in DOMAIN heap |->
                          IF \E name \in ObjectNames : ref = runs[run].refs[name]
                              THEN next.objs[ref[2]]
                          ELSE heap[ref]]
    /\ UNCHANGED <<job, workers, batch, pages, signals, images_data, flow, pc,
                   idx, flow_outputs, prompt_errors, summary_pages,
                   audit_citations, final_node_id, calls, verdict, response,
                   gemini_result, result, error>>

ConcurrentNext == \E run \in RunIds : ClassifyStep(run)

ConcurrentSpec == ConcurrentInit /\ [][ConcurrentNext]_vars

(***************************************************************************)
(* process_batch_job (job_processor.py) over the JOBS entry of storage.py: *)
(* one worker thread per document, no lock around the entry. A step of a   *)
(* worker is one access to the shared entry.                               *)
(***************************************************************************)
MaxDocs == 3

\* the positional parameters of classify_document (orchestrator.py lines
\* 110-114) and the arguments process_single_document passes (lines 51-53)
CLASSIFY_PARAMETERS == 5
CLASSIFY_ARGUMENTS == 6

\* the call of line 51 raises TypeError when it passes too many arguments
classify_call_raises == CLASSIFY_ARGUMENTS > CLASSIFY_PARAMETERS

\* the arguments of one update_document_in_job call
Update(status, progress, error_msg) ==
    [status |-> status, progress |-> progress, error |-> error_msg]

\* create_job: the entry of a job on the documents 1..n
create_job(n) ==
    [status |-> "pending", total_files |-> n, completed |-> 0, failed |-> 0,
     doc_ids |-> [i \in 1..n |-> i],
     documents |-> [d \in 1..n |->
                       [status |-> "pending", progress |-> 0, error |-> None]]]

\* the job is marked completed whatever its counters say
final_job_status_completed(entry) == "completed"

\* job_processor.py lines 101-105: the status the job gets at the end
final_job_status(entry) ==
    IF entry.failed > 0 THEN "failed" ELSE "completed"

\* process_single_document between two updates: from the stage whose update
\* has returned to the next stage and its update. stored says whether
\* get_document_pages finds pages for the document
next_stage(stage, stored) ==
    CASE stage = "begin" ->
            IF ~stored
                THEN [stage |-> "failed",
                      call |-> Update("failed", 0, Some("ValueError"))]
            ELSE [stage |-> "loaded", call |-> Update("processing", 30, None)]
      [] stage = "loaded" ->
            [stage |-> "detected", call |-> Update("processing", 60, None)]
      [] stage = "detected" ->
            IF classify_call_raises
                THEN [stage |-> "failed",
                      call |-> Update("failed", 0, Some("TypeError"))]
            ELSE [stage |-> "classified",
                  call |-> Update("processing", 90, None)]
      [] stage = "classified" ->
            [stage |-> "completed", call |-> Update("completed", 100, None)]

JobInit ==
    /\ \E n \in 0..MaxDocs :
          /\ job = create_job(n)
          /\ workers \in [1..n -> [stage : {"queued"}, stored : BOOLEAN,
                                   call : {None}, upc : {"idle"},
                                   pos : {1}, acc : {0}]]
    /\ batch = "called"
    /\ runs = <<>>
    /\ heap = <<>>
    /\ pages = <<>>
    /\ signals = DetectorSignals
    /\ images_data = <<>>
    /\ flow = ScanFlow
    /\ pc = "job"
    /\ idx = 1
    /\ flow_outputs = NoOutputs
    /\ prompt_errors = <<>>
    /\ summary_pages = NoOutputs
    /\ audit_citations = <<>>
    /\ final_node_id = None
    /\ calls = <<>>
    /\ verdict = None
    /\ response = None
    /\ gemini_result = None
    /\ result = None
    /\ error = None

ClassifierVars ==
    <<pages, signals, images_data, flow, pc, idx, flow_outputs, prompt_errors,
      summary_pages, audit_citations, final_node_id, calls, verdict, response,
      gemini_result, result, error, runs, heap>>

\* job_processor.py lines 77-88: the job is marked processing and one worker
\* per document is submitted; a worker starts with the update of line 31
BatchStart ==
    /\ batch = "called"
    /\ job' = [job EXCEPT !.status = "processing"]
    /\ workers' = [d \in DOMAIN workers |->
                      [workers[d] EXCEPT
                          !.stage = "begin",
                          !.call = Some(Update("processing", 10, None)),
                          !.upc = "write"]]
    /\ batch' = "waiting"
    /\ UNCHANGED ClassifierVars

\* storage.py lines 127-133: the entry of the document is replaced; a
\* completed or failed status goes on to recount, any other status returns
\* and the worker does its work up to the next update (job_processor.py
\* lines 33-69), which touches nothing the workers share
WorkerUpdate(d) ==
    /\ workers[d].upc = "write"
    /\ LET call == Val(workers[d].call)
           next == next_stage(workers[d].stage, workers[d].stored)
       IN /\ job' = [job EXCEPT !.documents[d] = call]
          /\ workers' =
                IF call.status \in {"completed", "failed"}
                    THEN [workers EXCEPT ![d].upc = "count",
                                         ![d].pos = 1, ![d].acc = 0]
                ELSE [workers EXCEPT ![d].stage = next.stage,
                                     ![d].call = Some(next.call)]
    /\ UNCHANGED <<batch, ClassifierVars>>

\* storage.py lines 136-143: the sum visits the documents one by one; when
\* it has seen them all the worker holds the count
WorkerCount(d) ==
    /\ workers[d].upc = "count"
    /\ LET w == workers[d]
       IN workers' = [workers EXCEPT
             ![d].acc = IF job.documents[job.doc_ids[w.pos]].status
                               = Val(w.call).status
                            THEN @ + 1 ELSE @,
             ![d].pos = @ + 1,
             ![d].upc = IF w.pos = Len(job.doc_ids) THEN "store" ELSE "count"]
    /\ UNCHANGED <<job, batch, ClassifierVars>>

\* storage.py lines 137 and 141: the count is stored into the counter, and
\* process_single_document returns (job_processor.py lines 63 and 70)
WorkerStore(d) ==
    /\ workers[d].upc = "store"
    /\ job' = IF Val(workers[d].call).status = "completed"
                  THEN [job EXCEPT !.completed = workers[d].acc]
              ELSE [job EXCEPT !.failed = workers[d].acc]
    /\ workers' = [workers EXCEPT ![d].upc = "idle", ![d].stage = "done",
                                  ![d].call = None]
    /\ UNCHANGED <<batch, ClassifierVars>>

\* job_processor.py lines 90-105: every future has completed; the job gets
\* its final status
BatchFinish ==
    /\ batch = "waiting"
    /\ \A d \in DOMAIN workers : workers[d].stage = "done"
    /\ job' = [job EXCEPT !.status = final_job_status(job)]
    /\ batch' = "returned"
    /\ UNCHANGED <<workers, ClassifierVars>>

JobNext ==
    \/ BatchStart
    \/ \E d \in DOMAIN workers : WorkerUpdate(d)
    \/ \E d \in DOMAIN workers : WorkerCount(d)
    \/ \E d \in DOMAIN workers : WorkerStore(d)
    \/ BatchFinish

JobSpec == JobInit /\ [][JobNext]_vars

(***************************************************************************)
(* Properties                                                              *)
(***************************************************************************)
Returned == pc = "returned"
Raised == pc = "raised"
Res == Val(result)
Primary == Val(verdict)
Gem == Val(gemini_result)

\* the secondary verdict is a dict without an "error" key
SecondaryClean == IsDict(Gem) /\ ~HasKey(Gem, "error")
Sensitivity == GetOrNone(Gem, "Sensitivity")

\* the ladder and the severity order, as the specification states them
LadderCategory ==
    IF signals.has_unsafe_pattern THEN "Unsafe"
    ELSE IF signals.has_pii THEN "Highly Sensitive"
    ELSE IF signals.has_internal_markers THEN "Confidential"
    ELSE "Public"

Severity == <<"Public", "Confidential", "Highly Sensitive", "Unsafe">>
Rank(c) == CHOOSE i \in 1..Len(Severity) : Severity[i] = c

\* at least one node was invoked and every invoked node's transport raised
EveryTransportRaised ==
    /\ calls # <<>>
    /\ \A i \in 1..Len(calls) : calls[i].raised

\* the secondary model call failed: exception, safety block, unparsable text
SecondaryFailed ==
    /\ ~IsNone(response)
    /\ \/ Val(response).raises
       \/ ~Val(response).candidates
       \/ Val(response).finish_reason = JNum(3)
       \/ Val(response).form \in {"wrapped_bad", "prose"}

\* C1: every returned ClassificationResult has final_category among the four
\* categories, whatever labels the terminal node and the secondary model gave
C1_FinalCategoryInEnum ==
    Returned => Res.final_category \in Category

\* a result was returned although the secondary model named a label outside
\* the four categories
C1_Witness ==
    /\ Returned
    /\ Primary.source = "prompt_tree"
    /\ SecondaryClean
    /\ Sensitivity = JStr("Sensitive")

\* C2: every returned ClassificationResult has a confidence within [0, 1]
C2_ConfidenceClamped ==
    Returned => (0 <= Res.confidence /\ Res.confidence <= 100)

\* C3 as stated: no two citations of a returned result share the key
\* (page, image_index, region, source, first 120 characters of the snippet)
StatedKey(cite) ==
    <<cite.page, cite.image_index, cite.region, cite.source,
      slice(cite.snippet, SNIPPET_KEY_CHARS)>>

C3_NoSharedStatedKey ==
    Returned =>
        \A i, j \in 1..Len(Res.citations) :
            i # j => StatedKey(Res.citations[i]) # StatedKey(Res.citations[j])

\* C3 as amended: no two citations of a returned result share the key
\* (page, image_index, stripped region with null as empty, source, first 120
\* characters of the stripped snippet)
StrippedKey(cite) ==
    <<cite.page, cite.image_index,
      IF IsNone(cite.region) THEN EmptyStr ELSE strip(Val(cite.region)),
      cite.source, slice(strip(cite.snippet), SNIPPET_KEY_CHARS)>>

C3_NoSharedStrippedKey ==
    Returned =>
        \A i, j \in 1..Len(Res.citations) :
            i # j => StrippedKey(Res.citations[i]) # StrippedKey(Res.citations[j])

\* a returned result whose citation list lost a duplicate of the audit trail
C3_Witness ==
    /\ Returned
    /\ Len(Res.citations) >= 2
    /\ Len(Res.citations) < Len(audit_citations)

\* C4: once the transport of a flow node has raised, the node's output is an
\* error marker and classify_document does not raise
C4_TransportFailureAbsorbed ==
    \A i \in 1..Len(calls) :
        calls[i].raised =>
            /\ output_has_error(flow_outputs[calls[i].id])
            /\ ~Raised

\* C5: classify_document never raises, whatever the models return
C5_NeverRaises == ~Raised

\* C6 as stated: when every node's transport raises, the returned result has
\* prompt errors and its final_category is the fallback-ladder category
C6_AllRaisedGivesLadder ==
    (Returned /\ EveryTransportRaised) =>
        /\ Res.llm_payload.prompt_errors # <<>>
        /\ Res.final_category = LadderCategory

\* C6 as amended: when every invoked node's transport raises, the returned
\* result has prompt errors, its primary verdict is the fallback-ladder
\* verdict, and its final_category is the ladder category unless the
\* error-free secondary verdict names a more severe category, which then wins
C6_AllRaisedGivesLadderOrSecondary ==
    (Returned /\ EveryTransportRaised) =>
        /\ Res.llm_payload.prompt_errors # <<>>
        /\ Res.llm_payload.prompt_tree.source = "fallback"
        /\ Res.llm_payload.prompt_tree.final_category = JStr(LadderCategory)
        /\ Res.final_category =
              IF /\ SecondaryClean
                 /\ Sensitivity.t = "str"
                 /\ Sensitivity.v \in Category
                 /\ Rank(Sensitivity.v) > Rank(LadderCategory)
              THEN Sensitivity.v
              ELSE LadderCategory

\* every transport raised and the secondary model escalated the category
C6_Witness ==
    /\ Returned
    /\ EveryTransportRaised
    /\ Res.final_category # LadderCategory

\* C7: a failed secondary call comes back as an {error} value, any exception
\* classify_document then raises is a validation error of the result, and a
\* returned result has agreement 0.0, disagreements ["gemini_error"] and
\* requires_review
C7_SecondaryFailureIsData ==
    SecondaryFailed =>
        /\ IsDict(Gem) /\ HasKey(Gem, "error")
        /\ Raised => error = Some("ValidationError")
        /\ Returned =>
              /\ Res.dual_llm_agreement = 0
              /\ Res.dual_llm_disagreements = Some(<<[note |-> "gemini_error"]>>)
              /\ Res.requires_review

\* a result returned after the secondary model was blocked or unparsable
C7_Witness ==
    /\ Returned
    /\ SecondaryFailed
    /\ ~Val(response).raises

\* C8: requires_review holds exactly when the final confidence is below 0.8,
\* or the unsafe signal is set, or a prompt node erred, or the agreement
\* score is below 0.7, or there is a disagreement
C8_ReviewFlag ==
    Returned =>
        (Res.requires_review <=>
            \/ Res.confidence < 80
            \/ Res.raw_signals.has_unsafe_pattern
            \/ Res.llm_payload.prompt_errors # <<>>
            \/ Res.dual_llm_agreement < 70
            \/ ~IsNone(Res.dual_llm_disagreements))

\* a result that needs review for its confidence alone
C8_Witness ==
    /\ Returned
    /\ Res.requires_review
    /\ Res.confidence < 80
    /\ ~Res.raw_signals.has_unsafe_pattern
    /\ Res.llm_payload.prompt_errors = <<>>
    /\ Res.dual_llm_agreement = 100
    /\ IsNone(Res.dual_llm_disagreements)

\* C9: the fallback ladder gives the first matching rung in severity order,
\* with its tag, and confidence 0.7 on every rung
C9_FallbackLadder ==
    (~IsNone(verdict) /\ Primary.source = "fallback") =>
        LET u == signals.has_unsafe_pattern
            p == signals.has_pii
            m == signals.has_internal_markers
            cat == Primary.final_category
            tags == Primary.secondary_tags
        IN /\ u => (cat = JStr("Unsafe") /\ tags = JList(<<JStr("Safety-Risk")>>))
           /\ (~u /\ p) =>
                (cat = JStr("Highly Sensitive") /\ tags = JList(<<JStr("PII")>>))
           /\ (~u /\ ~p /\ m) =>
                (cat = JStr("Confidential") /\ tags = JList(<<JStr("Internal")>>))
           /\ (~u /\ ~p /\ ~m) => (cat = JStr("Public") /\ tags = JList(<<>>))
           /\ Primary.confidence = 70

\* the ladder decided a document with both the unsafe and the PII signal
C9_Witness ==
    /\ ~IsNone(verdict)
    /\ Primary.source = "fallback"
    /\ signals.has_unsafe_pattern
    /\ signals.has_pii

\* C10: the category of a returned result is the more severe of the primary
\* and the secondary category, the primary on equal severity, and the primary
\* when there is no secondary category
C10_MostSevereWins ==
    Returned =>
        LET primary == Primary.final_category
            secondary == IF SecondaryClean THEN Sensitivity ELSE JNull
        IN /\ secondary.t = "null" => JStr(Res.final_category) = primary
           /\ (/\ primary.t = "str" /\ primary.v \in Category
               /\ secondary.t = "str" /\ secondary.v \in Category) =>
                 Res.final_category =
                    IF Rank(secondary.v) > Rank(primary.v)
                    THEN secondary.v ELSE primary.v

\* the secondary category was the more severe one and became the final one
C10_Witness ==
    /\ Returned
    /\ SecondaryClean
    /\ Primary.final_category = JStr("Confidential")
    /\ Sensitivity = JStr("Highly Sensitive")
    /\ Res.final_category = "Highly Sensitive"

\* a label the severity order ranks
Ranked(cat) == cat.t = "str" /\ cat.v \in Category

\* C11: the category of a returned result is never less severe than the
\* primary category, never less severe than the category of an error-free
\* secondary verdict, and equal to the primary category when the secondary
\* verdict carries an error
C11_NeverLessSevere ==
    Returned =>
        /\ Ranked(Primary.final_category) =>
              Rank(Res.final_category) >= Rank(Primary.final_category.v)
        /\ (SecondaryClean /\ Ranked(Sensitivity)) =>
              Rank(Res.final_category) >= Rank(Sensitivity.v)
        /\ HasKey(Gem, "error") => JStr(Res.final_category) = Primary.final_category

\* the secondary verdict named a less severe category than the primary one
C11_Witness ==
    /\ Returned
    /\ SecondaryClean
    /\ Primary.final_category = JStr("Unsafe")
    /\ Sensitivity = JStr("Public")
    /\ Res.final_category = "Unsafe"

\* the primary category was above "Public" and the secondary call failed
C11_ErrorWitness ==
    /\ Returned
    /\ HasKey(Gem, "error")
    /\ Primary.source = "prompt_tree"
    /\ Primary.final_category = JStr("Highly Sensitive")

\* the agreement of the two verdicts once both exist
Agreement == compute_llm_agreement(Primary, Gem)
SameCategory == Primary.final_category = Get(Gem, "Sensitivity", JStr(""))
ConfidenceGap ==
    Abs(Primary.confidence - Get(Gem, "Confidence", JNum(70)).v)

\* C12: the agreement is 1.0 with no disagreement exactly when the secondary
\* verdict has no error, the categories are identical and the confidences
\* differ by less than 0.2; otherwise a category mismatch contributes 0.0 and
\* a gap of 0.2 or more contributes 0.5 to the mean of the two components,
\* and each adds one note (a missing secondary confidence counts as 0.7)
C12_AgreementScore ==
    (~IsNone(gemini_result) /\ ~Agreement.raised) =>
        LET clean == IsDict(Gem) /\ ~HasKey(Gem, "error")
            close == ConfidenceGap < 20
        IN /\ (Agreement.score = 100 /\ Agreement.disagreements = <<>>) <=>
                 (clean /\ SameCategory /\ close)
           /\ clean =>
                 /\ 2 * Agreement.score =
                       (IF SameCategory THEN 100 ELSE 0)
                       + (IF close THEN 100 ELSE 50)
                 /\ Len(Agreement.disagreements) =
                       (IF SameCategory THEN 0 ELSE 1)
                       + (IF close THEN 0 ELSE 1)
                 /\ ~SameCategory =>
                       Agreement.disagreements[1].note = "category"
                 /\ ~close =>
                       Agreement.disagreements[Len(Agreement.disagreements)].note
                          = "confidence_gap"
           /\ Returned =>
                 /\ Res.dual_llm_agreement = Agreement.score
                 /\ Res.llm_payload.dual_llm_validation.disagreements
                       = Agreement.disagreements

\* the categories differ and the confidences are exactly 0.2 apart
C12_Witness ==
    /\ Returned
    /\ SecondaryClean
    /\ ~SameCategory
    /\ ConfidenceGap = 20
    /\ Res.dual_llm_agreement = 25

\* the same category with confidences far apart
C12_GapWitness ==
    /\ Returned
    /\ SecondaryClean
    /\ SameCategory
    /\ ConfidenceGap > 20
    /\ Res.dual_llm_agreement = 75

\* no detector signal is set
NoSignal ==
    /\ ~signals.has_pii
    /\ ~signals.has_unsafe_pattern
    /\ ~signals.has_internal_markers

\* the prompt-tree verdict and an error-free secondary verdict name the same
\* category with confidences of at least 0.8 that are less than 0.2 apart
ConfidentAgreement ==
    /\ Primary.source = "prompt_tree"
    /\ SecondaryClean
    /\ Sensitivity = Primary.final_category
    /\ Primary.confidence >= 80
    /\ HasKey(Gem, "Confidence")
    /\ IsNumber(Gem.v.Confidence)
    /\ Gem.v.Confidence.v >= 80
    /\ Abs(Primary.confidence - Gem.v.Confidence.v) < 20

\* C13: when both models agree confidently, no detector signal is set and no
\* prompt node erred, the returned result does not require review and its
\* agreement score is at least 0.7
C13_ConfidentAgreementNoReview ==
    (Returned /\ ConfidentAgreement /\ NoSignal /\ prompt_errors = <<>>) =>
        /\ ~Res.requires_review
        /\ Res.dual_llm_agreement >= 70

\* a result returned on a confident agreement, without signals or errors
C13_Witness ==
    /\ Returned
    /\ ConfidentAgreement
    /\ NoSignal
    /\ prompt_errors = <<>>
    /\ Res.confidence >= 80

\* C14: when the unsafe signal is set and the primary verdict comes from the
\* fallback ladder, the returned result is "Unsafe" and requires review,
\* whatever the secondary model returned
C14_UnsafeFallbackStands ==
    (/\ Returned
     /\ signals.has_unsafe_pattern
     /\ Primary.source = "fallback") =>
        /\ Res.final_category = "Unsafe"
        /\ Res.requires_review

\* the ladder said "Unsafe" and an error-free secondary verdict said "Public"
C14_Witness ==
    /\ Returned
    /\ signals.has_unsafe_pattern
    /\ Primary.source = "fallback"
    /\ SecondaryClean
    /\ Sensitivity = JStr("Public")

\* every transport of an invoked node raised, and so did the secondary call
AllTransportsFailed ==
    /\ \A i \in 1..Len(calls) : calls[i].raised
    /\ SecondaryFailed

\* C15: a document with the PII signal, without the unsafe signal and without
\* images, all of whose model calls fail, is returned as "Highly Sensitive"
\* with confidence 0.7 and requires_review, and its citations contain the
\* first three detector PII hits
C15_PiiFallback ==
    (/\ pc \in {"returned", "raised"}
     /\ signals.has_pii
     /\ ~signals.has_unsafe_pattern
     /\ images_data = <<>>
     /\ AllTransportsFailed) =>
        /\ Returned
        /\ Res.final_category = "Highly Sensitive"
        /\ Res.confidence = 70
        /\ Res.requires_review
        /\ \A i \in 1..Min(3, Len(signals.pii_hits)) :
              \E j \in 1..Len(Res.citations) :
                  Res.citations[j] = signals.pii_hits[i]

\* such a document with more than three PII hits
C15_Witness ==
    /\ Returned
    /\ signals.has_pii
    /\ ~signals.has_unsafe_pattern
    /\ images_data = <<>>
    /\ calls # <<>>
    /\ AllTransportsFailed
    /\ Len(signals.pii_hits) > 3
    /\ Len(Res.citations) >= 2

\* the explanation of each rung of the ladder
LadderExplanation ==
    IF signals.has_unsafe_pattern THEN "Unsafe keywords detected."
    ELSE IF signals.has_pii THEN "PII patterns detected."
    ELSE IF signals.has_internal_markers THEN "Internal markers detected."
    ELSE "No sensitive markers found."

\* C16: on the fallback path with a failed secondary call, the category, the
\* confidence and the explanation of the returned result are functions of the
\* detector flags alone, so two runs on the same pages and signals agree on
\* them whatever the images, the flow and the model calls were
C16_FallbackDeterministic ==
    (/\ Returned
     /\ Primary.source = "fallback"
     /\ HasKey(Gem, "error")) =>
        /\ Res.final_category = LadderCategory
        /\ Res.confidence = 70
        /\ Res.explanation = JStr(LadderExplanation)

\* the fallback path taken after a node answered and the terminal output did
\* not parse, with the PII flag set and no PII hit listed
C16_Witness ==
    /\ Returned
    /\ Primary.source = "fallback"
    /\ HasKey(Gem, "error")
    /\ prompt_errors = <<>>
    /\ signals.has_pii
    /\ ~signals.has_unsafe_pattern
    /\ signals.pii_hits = <<>>
    /\ images_data # <<>>

\* the positions of L that hold the first citation with their key, and the
\* subsequence of L at these positions
FirstPositions(L) ==
    {i \in 1..Len(L) :
        \A j \in 1..(i - 1) : StrippedKey(L[j]) # StrippedKey(L[i])}

FirstOccurrences(L) ==
    LET P == FirstPositions(L)
    IN [k \in 1..Cardinality(P) |->
          L[CHOOSE i \in P : Cardinality({j \in P : j <= i}) = k]]

\* the citation lists of a state: the audit trail, the trail followed by
\* itself, and the detector hits
CitationLists ==
    {audit_citations, audit_citations \o audit_citations,
     signals.pii_hits \o signals.unsafe_hits \o signals.pii_hits}

\* C17: de-duplicating twice gives what de-duplicating once gives, and the
\* result is the subsequence of the list that keeps, in the original order,
\* the first citation of each key
C17_DedupeIdempotent ==
    \A L \in CitationLists :
        LET D == dedupe_citations(L)
        IN /\ dedupe_citations(D) = D
           /\ D = FirstOccurrences(L)

\* an audit trail of which de-duplication keeps several citations and drops
\* one that differs from the first citation of its key
C17_Witness ==
    LET D == dedupe_citations(audit_citations)
    IN /\ Len(D) >= 2
       /\ \E i, j \in 1..Len(audit_citations) :
             /\ i < j
             /\ StrippedKey(audit_citations[i]) = StrippedKey(audit_citations[j])
             /\ audit_citations[i] # audit_citations[j]

\* run_detectors has returned
Detected == pc = "detected"

\* the shape ddd-dd-dddd somewhere in the text
ContainsSsnShape(text) ==
    \E i \in 1..Len(text) :
        /\ i + 10 <= Len(text)
        /\ \A k \in 0..10 :
              IF k \in {3, 6} THEN text[i + k] = "-"
              ELSE text[i + k] \in DigitChars

\* the shape with no letter, digit or underscore right before or after it
ContainsDelimitedSsn(text) ==
    \E i \in 1..Len(text) :
        /\ i + 10 <= Len(text)
        /\ \A k \in 0..10 :
              IF k \in {3, 6} THEN text[i + k] = "-"
              ELSE text[i + k] \in DigitChars
        /\ i > 1 => ~IsWordChar(text[i - 1])
        /\ i + 11 <= Len(text) => ~IsWordChar(text[i + 11])

\* the PII flag is set and a detector_pii citation names the page
PiiReported(page) ==
    /\ signals.has_pii
    /\ \E h \in 1..Len(signals.pii_hits) :
          /\ signals.pii_hits[h].source = Some("detector_pii")
          /\ signals.pii_hits[h].page = Some(page)

\* C18 as stated: for every page whose text contains the shape ddd-dd-dddd,
\* run_detectors sets has_pii and lists a detector_pii citation of that page
C18_SsnShapeDetected ==
    Detected =>
        \A i \in 1..Len(pages) :
            ContainsSsnShape(pages[i].text) => PiiReported(pages[i].page)

\* C18 as amended: for every page whose text contains the shape ddd-dd-dddd
\* with no letter, digit or underscore right before or after it,
\* run_detectors sets has_pii and lists a detector_pii citation of that page
C18_DelimitedSsnDetected ==
    Detected =>
        \A i \in 1..Len(pages) :
            ContainsDelimitedSsn(pages[i].text) => PiiReported(pages[i].page)

\* the second page of two holds a delimited SSN, the first page holds none
C18_Witness ==
    /\ Detected
    /\ Len(pages) = 2
    /\ ~ContainsSsnShape(pages[1].text)
    /\ ContainsDelimitedSsn(pages[2].text)
    /\ Len(signals.pii_hits) = 1

\* the error-free secondary category was selected over the primary one
SecondarySelected ==
    /\ SecondaryClean
    /\ JStr(Res.final_category) = Sensitivity
    /\ Sensitivity # Primary.final_category

\* C19: the confidence, the explanation and the tags of a returned result are
\* the primary verdict's unless the secondary verdict is error-free and its
\* category was selected over the primary one; on equal categories and on a
\* secondary error the primary values are retained
C19_PrimaryFieldsRetained ==
    (Returned /\ ~SecondarySelected) =>
        /\ Res.confidence = Primary.confidence
        /\ Res.explanation = Primary.explanation
        /\ Res.secondary_tags = Primary.secondary_tags

\* the position of a node in the declared flow
FlowPosition(id) == CHOOSE i \in 1..Len(flow) : flow[i].id = id

\* the invoked nodes, in the order of their invocation, are nodes of the
\* flow at strictly increasing positions
InvokedInFlowOrder ==
    /\ \A i \in 1..Len(calls) : \E k \in 1..Len(flow) : flow[k].id = calls[i].id
    /\ \A i, j \in 1..Len(calls) :
          i < j => FlowPosition(calls[i].id) < FlowPosition(calls[j].id)

\* the loop goes on to the next declared node (or ends after the last one)
NextNodeConsidered ==
    /\ idx' = idx + 1
    /\ pc' = IF idx < Len(flow) THEN "flow" ELSE "resolve"

\* this step invokes the node at idx, which errs and tolerates its error
ToleratedError ==
    /\ pc = "flow"
    /\ Len(calls') = Len(calls) + 1
    /\ prompt_errors' = Append(prompt_errors, flow[idx].id)
    /\ flow[idx].stop_on_error = Some(FALSE)

\* C20 as stated: the invoked nodes form a subsequence of the declared flow,
\* each invoked at most once; after a skipped node, and after an errored node
\* with stop_on_error false, the next declared node is considered
C20_FlowOrder ==
    /\ []InvokedInFlowOrder
    /\ [][/\ (pc = "flow" /\ Skipped(flow[idx])) => NextNodeConsidered
          /\ ToleratedError => NextNodeConsidered]_vars

\* C20 as amended: as stated, except that an errored node with stop_on_error
\* false still ends the flow when it is flagged final_node or one of its
\* stop_if conditions holds on its error marker
C20_FlowOrderUnlessFinal ==
    /\ []InvokedInFlowOrder
    /\ [][/\ (pc = "flow" /\ Skipped(flow[idx])) => NextNodeConsidered
          /\ (/\ ToleratedError
              /\ ~flow[idx].final_node
              /\ ~stop_conditions_met(flow[idx], flow_outputs'[flow[idx].id]))
                => NextNodeConsidered]_vars

\* a node was skipped, the next one erred without halting the flow, and two
\* further nodes were invoked
C20_Witness ==
    /\ Len(calls) = 3
    /\ calls[1].raised
    /\ FlowPosition(calls[1].id) = 2
    /\ prompt_errors = <<calls[1].id>>
    /\ pc = "resolve"

\* the value of a detector flag by its name
Flag(attr) ==
    IF attr = "has_pii" THEN signals.has_pii
    ELSE IF attr = "has_unsafe_pattern" THEN signals.has_unsafe_pattern
    ELSE attr = "has_internal_markers" /\ signals.has_internal_markers

\* the gate of a node fails for this run
GateFails(node) ==
    \/ node.conditions.has_images /\ images_data = <<>>
    \/ \E attr \in node.conditions.signals_true : ~Flag(attr)
    \/ \E attr \in node.conditions.signals_false : Flag(attr)
    \/ node.runner = "multimodal" /\ images_data = <<>>

\* the ids of the nodes invoked so far
Invoked == {calls[i].id : i \in 1..Len(calls)}
ErrorIds == {prompt_errors[i] : i \in 1..Len(prompt_errors)}

\* C21: a node whose gate fails (has_images without images, a signals_true
\* attribute that is false, a signals_false attribute that is true, or a
\* multimodal runner without images) is never invoked, has no entry in the
\* flow outputs and records no prompt error
C21_GatedNodeSkipped ==
    \A k \in 1..Len(flow) :
        GateFails(flow[k]) =>
            /\ flow[k].id \notin Invoked
            /\ flow[k].id \notin DOMAIN flow_outputs
            /\ flow[k].id \notin ErrorIds

\* the loop ended, a node was passed over for a signals_false attribute,
\* another for missing images, and a node before them was invoked
C21_Witness ==
    /\ pc = "resolve"
    /\ Invoked # {}
    /\ \E k \in 1..Len(flow) :
          \E attr \in flow[k].conditions.signals_false : Flag(attr)
    /\ images_data = <<>>

\* the node of the flow with a given id, and the ids a node depends on
\* directly or through other nodes
NodeOf(id) == flow[FlowPosition(id)]
FlowIds == {flow[k].id : k \in 1..Len(flow)}

RECURSIVE DependsOnWithin(_, _)
DependsOnWithin(id, depth) ==
    IF depth = 0 \/ id \notin FlowIds THEN {}
    ELSE NodeOf(id).depends_on
         \cup UNION {DependsOnWithin(dep, depth - 1) : dep \in NodeOf(id).depends_on}
TransitiveDependencies(id) == DependsOnWithin(id, Len(flow))

\* the loop has passed the node at position k
Passed(k) == pc # "flow" \/ k < idx

\* C22: a node is invoked only when every id of its depends_on already has an
\* entry in the outputs map; a node the loop passed without invoking it is
\* never invoked later, and no invoked node depends, directly or through
\* other nodes, on a node that was passed over
C22_DependenciesFirst ==
    /\ [][Len(calls') = Len(calls) + 1 =>
            /\ calls' = Append(calls, calls'[Len(calls')])
            /\ calls'[Len(calls')].id = flow[idx].id
            /\ flow[idx].depends_on \subseteq DOMAIN flow_outputs]_vars
    /\ [][\A k \in 1..Len(flow) :
            (Passed(k) /\ flow[k].id \notin Invoked) =>
                flow[k].id \notin {calls'[i].id : i \in 1..Len(calls')}]_vars
    /\ [](\A k \in 1..Len(flow) :
            (Passed(k) /\ flow[k].id \in Invoked) =>
                \A dep \in TransitiveDependencies(flow[k].id) :
                    /\ dep \in Invoked
                    /\ dep \in DOMAIN flow_outputs)

\* the loop ended with a node passed over for its gate, a node passed over
\* because it depends on that node, and a third that depends on the second
C22_Witness ==
    /\ pc = "resolve"
    /\ Invoked # {}
    /\ \E a, b, c \in 1..Len(flow) :
          /\ GateFails(flow[a])
          /\ flow[a].id \in flow[b].depends_on
          /\ ~GateFails(flow[b])
          /\ flow[b].id \in flow[c].depends_on
          /\ ~GateFails(flow[c])
          /\ flow[c].id \notin Invoked

\* the recorded output of a node is an error marker
IsErrorMarker(output) ==
    /\ output.t = "dict"
    /\ "mock" \in DOMAIN output.v
    /\ output.v.mock = JBool(TRUE)

\* the node of the i-th invocation erred and does not tolerate its error
HaltingError(i) ==
    /\ IsErrorMarker(flow_outputs[calls[i].id])
    /\ NodeOf(calls[i].id).stop_on_error # Some(FALSE)

\* C23: when the recorded output of an invoked node is an error marker and
\* its stop_on_error is true or unset, the flow ends at that node: it is the
\* last node invoked and the terminal node, and the primary verdict is the
\* fallback ladder's, with the citations gathered so far
C23_ErrorHaltsFlow ==
    \A i \in 1..Len(calls) :
        HaltingError(i) =>
            /\ i = Len(calls)
            /\ pc # "flow"
            /\ final_node_id = Some(calls[i].id)
            /\ ~IsNone(verdict) =>
                  /\ Primary.source = "fallback"
                  /\ Primary.final_category = JStr(LadderCategory)
                  /\ Primary.confidence = 70
                  /\ Primary.explanation = JStr(LadderExplanation)
                  /\ Primary.citations = FirstOccurrences(audit_citations)

\* the third invoked node erred with stop_on_error unset, after citations
\* were gathered, and the verdict was made
C23_Witness ==
    /\ ~IsNone(verdict)
    /\ Len(calls) >= 2
    /\ HaltingError(Len(calls))
    /\ IsNone(NodeOf(calls[Len(calls)].id).stop_on_error)
    /\ Len(Primary.citations) >= 2
    /\ Len(flow) > FlowPosition(calls[Len(calls)].id)

\* the value at a dotted path: a key of a mapping, a position of a list
RECURSIVE ValueAt(_, _)
ValueAt(value, path) ==
    IF path = <<>> THEN value
    ELSE IF value.t = "dict"
        THEN IF Head(path) \in DOMAIN value.v
             THEN ValueAt(value.v[Head(path)], Tail(path)) ELSE JNull
    ELSE IF value.t = "list"
        THEN LET at == IF Head(path) = "0" THEN 1
                       ELSE IF Head(path) = "1" THEN 2 ELSE 0
             IN IF at \in 1..Len(value.v)
                THEN ValueAt(value.v[at], Tail(path)) ELSE JNull
    ELSE JNull

\* nonempty, nonzero, not null, not false
IsTruthy(value) ==
    /\ value.t # "null"
    /\ value.t = "bool" => value.v
    /\ value.t = "num" => value.v # 0
    /\ value.t \in {"list", "text"} => value.v # <<>>
    /\ value.t = "str" => value.v # ""
    /\ value.t = "dict" => DOMAIN value.v # {}

\* one of the stop_if conditions of the node holds on the output
StopSatisfied(node, output) ==
    \E c \in 1..Len(node.stop_if) :
        IF node.stop_if[c].equals # None
        THEN ValueAt(output, node.stop_if[c].path) = node.stop_if[c].equals[1]
        ELSE IsTruthy(ValueAt(output, node.stop_if[c].path))

\* the loop ended at the node of the i-th invocation
HaltedAt(i) ==
    /\ i = Len(calls)
    /\ pc # "flow"
    /\ idx = FlowPosition(calls[i].id)
    /\ final_node_id = Some(calls[i].id)

\* C24: the flow halts at an invoked node when one of its stop_if conditions
\* is satisfied by the recorded output (a condition with equals by the equal
\* value at its path, through mappings and list positions; one without by a
\* truthy value); when none is satisfied, and the node neither erred fatally
\* nor is final, the loop goes past the node
C24_StopConditions ==
    \A i \in 1..Len(calls) :
        LET node == NodeOf(calls[i].id)
            output == flow_outputs[calls[i].id]
        IN node.stop_if # <<>> =>
             /\ StopSatisfied(node, output) => HaltedAt(i)
             /\ (/\ ~StopSatisfied(node, output)
                 /\ ~HaltingError(i)
                 /\ ~node.final_node) => idx > FlowPosition(calls[i].id)

\* the flow halted on the first span of a list
C24_Witness ==
    /\ pc = "resolve"
    /\ calls # <<>>
    /\ NodeOf(calls[Len(calls)].id).stop_if # <<>>
    /\ IsNone(NodeOf(calls[Len(calls)].id).stop_if[1].equals)
    /\ HaltedAt(Len(calls))
    /\ ~IsErrorMarker(flow_outputs[calls[Len(calls)].id])

\* a node with an unsatisfied equals condition was followed by another node
C24_PassedWitness ==
    /\ Len(calls) >= 2
    /\ \E i \in 1..(Len(calls) - 1) :
          /\ NodeOf(calls[i].id).stop_if # <<>>
          /\ ~IsNone(NodeOf(calls[i].id).stop_if[1].equals)
          /\ ~IsErrorMarker(flow_outputs[calls[i].id])

\* C25: once a node flagged final_node has been invoked the flow has halted
\* at it: it is the last node invoked, it is the terminal node, and a verdict
\* parsed from the terminal output carries the category that node returned
C25_FinalNodeHalts ==
    \A i \in 1..Len(calls) :
        NodeOf(calls[i].id).final_node =>
            /\ HaltedAt(i)
            /\ (~IsNone(verdict) /\ Primary.source = "prompt_tree") =>
                  \/ /\ flow_outputs[calls[i].id].t = "dict"
                     /\ Primary.final_category
                           = flow_outputs[calls[i].id].v.final_category
                  \/ /\ flow_outputs[calls[i].id] = JStr(EncodedVerdict)
                     /\ Primary.final_category = JStr("Confidential")

\* a final node was invoked and answered while declared nodes remain after it
C25_Witness ==
    /\ ~IsNone(verdict)
    /\ Primary.source = "prompt_tree"
    /\ calls # <<>>
    /\ NodeOf(calls[Len(calls)].id).final_node
    /\ FlowPosition(calls[Len(calls)].id) < Len(flow)
    /\ Len(calls) >= 2

\* the loop ran through the whole flow: no node halted it
FlowExhausted == pc \notin {"flow", "raised"} /\ idx > Len(flow)

\* the positions of the nodes with an entry in the outputs map
OutputPositions == {k \in 1..Len(flow) : flow[k].id \in DOMAIN flow_outputs}

\* C26: when the flow ends without a final, stop-condition or stop-on-error
\* halt, the terminal node is the last node in declared order with an entry
\* in the outputs map; when no node has an entry there is no terminal output
\* and the primary verdict is the fallback ladder's
C26_TerminalIsLastOutput ==
    (FlowExhausted /\ ~IsNone(verdict)) =>
        IF OutputPositions = {}
        THEN /\ final_node_id = None
             /\ Primary.source = "fallback"
             /\ Primary.final_category = JStr(LadderCategory)
        ELSE LET last == CHOOSE k \in OutputPositions :
                            \A m \in OutputPositions : m <= k
             IN /\ final_node_id = Some(flow[last].id)
                /\ IsErrorMarker(flow_outputs[flow[last].id]) =>
                      Primary.source = "fallback"
                /\ Primary.source = "prompt_tree" =>
                      \/ /\ flow_outputs[flow[last].id].t = "dict"
                         /\ Primary.final_category
                               = flow_outputs[flow[last].id].v.final_category
                      \/ /\ flow_outputs[flow[last].id] = JStr(EncodedVerdict)
                         /\ Primary.final_category = JStr("Confidential")

\* the flow ran to its end with two outputs and the later one was parsed
C26_Witness ==
    /\ FlowExhausted
    /\ ~IsNone(verdict)
    /\ Cardinality(OutputPositions) >= 2
    /\ Primary.source = "prompt_tree"

\* the flow ran to its end and no node was invoked
C26_NoOutputWitness ==
    /\ FlowExhausted
    /\ ~IsNone(verdict)
    /\ OutputPositions = {}

\* the terminal output once the verdict is made: the output of the terminal
\* node, null when there is none
TerminalOutput ==
    IF final_node_id # None /\ final_node_id[1] \in DOMAIN flow_outputs
    THEN flow_outputs[final_node_id[1]] ELSE JNull

\* the terminal output read as an object: itself, or the object its text
\* encodes
TerminalObject ==
    IF TerminalOutput = JStr(EncodedVerdict)
    THEN JDict([final_category |-> JStr("Confidential")])
    ELSE TerminalOutput

\* a confidence that converts to a number
Coercible(value) ==
    \/ value.t \in {"num", "bool"}
    \/ value = JStr("0.9")

\* the citations field can be read: a list of {page, snippet} objects whose
\* page is a number or null
ReadableCitations(value) ==
    /\ value.t = "list"
    /\ \A c \in 1..Len(value.v) :
          (value.v[c].t = "dict" /\ "page" \in DOMAIN value.v[c].v) =>
              value.v[c].v.page.t \in {"null", "num"}

\* the terminal output is present, is no error marker and parses
TerminalParses ==
    /\ IsTruthy(TerminalOutput)
    /\ ~IsErrorMarker(TerminalOutput)
    /\ TerminalObject.t = "dict"
    /\ "final_category" \in DOMAIN TerminalObject.v
    /\ "confidence" \in DOMAIN TerminalObject.v =>
          Coercible(TerminalObject.v.confidence)
    /\ "citations" \in DOMAIN TerminalObject.v =>
          ReadableCitations(TerminalObject.v.citations)

\* C27: the primary verdict has source "prompt_tree" exactly when the
\* terminal output is present, is no error marker and parses with a
\* final_category field and a confidence that converts to a number; in every
\* other case it carries the category, tags, confidence and explanation of
\* the fallback ladder with source "fallback"; making the verdict never raises
C27_VerdictSource ==
    /\ [](~IsNone(verdict) =>
            /\ Primary.source = "prompt_tree" <=> TerminalParses
            /\ Primary.source # "prompt_tree" =>
                  /\ Primary.source = "fallback"
                  /\ Primary.final_category = JStr(LadderCategory)
                  /\ Primary.secondary_tags =
                        JList(CASE LadderCategory = "Unsafe" -> <<JStr("Safety-Risk")>>
                                [] LadderCategory = "Highly Sensitive" -> <<JStr("PII")>>
                                [] LadderCategory = "Confidential" -> <<JStr("Internal")>>
                                [] OTHER -> <<>>)
                  /\ Primary.confidence = 70
                  /\ Primary.explanation = JStr(LadderExplanation))
    /\ [][pc = "resolve" => (pc' = "second_opinion" /\ ~IsNone(verdict'))]_vars

\* the terminal node answered with a category and a confidence that is no
\* number, and the ladder decided
C27_Witness ==
    /\ ~IsNone(verdict)
    /\ Primary.source = "fallback"
    /\ TerminalOutput.t = "dict"
    /\ ~IsErrorMarker(TerminalOutput)
    /\ "final_category" \in DOMAIN TerminalOutput.v
    /\ "confidence" \in DOMAIN TerminalOutput.v
    /\ ~Coercible(TerminalOutput.v.confidence)

\* C28: a returned result whose primary verdict came from the fallback ladder
\* requires review, whatever the secondary verdict
C28_FallbackRequiresReview ==
    (Returned /\ Primary.source = "fallback") => Res.requires_review

\* C29: for every node whose transport raised, the recorded output is an
\* error marker with mock = true, the exception message as error, and the
\* id of the node as prompt_node, for text and multimodal nodes alike
C29_ErrorMarkerNamesNode ==
    \A i \in 1..Len(calls) :
        calls[i].raised =>
            flow_outputs[calls[i].id] =
                JDict([mock |-> JBool(TRUE),
                       error |-> JStr("Gemini call failed"),
                       prompt_node |-> JStr(calls[i].id)])

\* the ids of the invoked nodes whose recorded output is an error marker, in
\* the order of invocation
RECURSIVE ErredUpTo(_)
ErredUpTo(n) ==
    IF n = 0 THEN <<>>
    ELSE IF IsErrorMarker(flow_outputs[calls[n].id])
        THEN Append(ErredUpTo(n - 1), calls[n].id)
    ELSE ErredUpTo(n - 1)

\* C30: in every state prompt_errors lists exactly the invoked nodes whose
\* recorded output is an error marker, in execution order, and no citation
\* of the trail has such a node as its source
C30_PromptErrorsExact ==
    /\ prompt_errors = ErredUpTo(Len(calls))
    /\ \A c \in 1..Len(audit_citations) :
          \A i \in 1..Len(calls) :
              audit_citations[c].source = Some(calls[i].id) =>
                  ~IsErrorMarker(flow_outputs[calls[i].id])

\* two nodes erred, another answered in between or around them, and the
\* trail holds citations
C30_Witness ==
    /\ Len(prompt_errors) >= 2
    /\ Len(calls) > Len(prompt_errors)
    /\ audit_citations # <<>>
    /\ \E c \in 1..Len(audit_citations) : \E i \in 1..Len(calls) :
          audit_citations[c].source = Some(calls[i].id)

\* C31: the flow outputs map only grows: a step keeps every recorded entry
\* with its value, and a new entry appears only in a step that invokes the
\* node it belongs to
C31_OutputsMonotone ==
    [][ /\ \A k \in DOMAIN flow_outputs :
              k \in DOMAIN flow_outputs' /\ flow_outputs'[k] = flow_outputs[k]
        /\ \A k \in DOMAIN flow_outputs' \ DOMAIN flow_outputs :
              /\ Len(calls') = Len(calls) + 1
              /\ calls'[Len(calls')].id = k ]_vars

\* a run that returned with the outputs of three nodes
C31_Witness ==
    /\ Returned
    /\ Cardinality(DOMAIN flow_outputs) >= 3
    /\ Len(calls) = Cardinality(DOMAIN flow_outputs)

\* a step that invokes a collect_summary node whose output is a list of
\* entries, each a mapping with a page and a summary, and that reaches the
\* merge of line 168
SummaryEntries == flow_outputs'[flow[idx].id].v

CollectStep ==
    /\ pc = "flow"
    /\ Len(calls') = Len(calls) + 1
    /\ flow[idx].collect_summary
    /\ IsList(flow_outputs'[flow[idx].id])
    /\ \A i \in 1..Len(SummaryEntries) :
          /\ IsDict(SummaryEntries[i])
          /\ HasKey(SummaryEntries[i], "page")
          /\ HasKey(SummaryEntries[i], "summary")

\* the position of the last entry for the page of entry i among the
\* positions in set
LastFor(i, set) ==
    CHOOSE j \in set :
        /\ SummaryEntries[j].v.page = SummaryEntries[i].v.page
        /\ \A k \in set :
              SummaryEntries[k].v.page = SummaryEntries[i].v.page => k <= j

\* the map after the step holds, for the entries at the positions in set, the
\* summary of the last of them for each page, and keeps every other entry
MergedFrom(set) ==
    LET listed == {SummaryEntries[i].v.page : i \in set}
    IN /\ \A i \in set :
             /\ SummaryEntries[i].v.page \in DOMAIN summary_pages'
             /\ summary_pages'[SummaryEntries[i].v.page] =
                    SummaryEntries[LastFor(i, set)].v.summary
       /\ \A p \in DOMAIN summary_pages \ listed :
             p \in DOMAIN summary_pages' /\ summary_pages'[p] = summary_pages[p]
       /\ DOMAIN summary_pages' \subseteq DOMAIN summary_pages \cup listed

\* a step that invokes a text node: the page map of its payload is the
\* summary-pages map exactly when the node has use_summary_pages and the map
\* is not empty, and the raw pages otherwise
PayloadChosen ==
    (pc = "flow" /\ Len(calls') = Len(calls) + 1
        /\ flow[idx].runner # "multimodal") =>
        LET sent == Val(calls'[Len(calls')].sent)
        IN IF flow[idx].use_summary_pages /\ DOMAIN summary_pages # {}
               THEN sent.from = "summary_pages" /\ sent.map = summary_pages
           ELSE sent.from = "pages" /\ sent.map = pages

Merged ==
    {i \in 1..Len(SummaryEntries) :
        Truthy(SummaryEntries[i].v.page) /\ Truthy(SummaryEntries[i].v.summary)}

C32_RawPagesWitness ==
    /\ Len(calls) >= 2
    /\ calls[Len(calls)].id = "confidentiality_scan"
    /\ Val(calls[Len(calls)].sent).from = "pages"

\* the first three pii_hits, or the first three unsafe_hits when there is no
\* PII hit
FirstThreeHits ==
    LET hits == IF Len(signals.pii_hits) > 0 THEN signals.pii_hits
                ELSE signals.unsafe_hits
    IN [i \in 1..(IF Len(hits) < 3 THEN Len(hits) ELSE 3) |-> hits[i]]

\* C33: whenever the resolver takes the fallback ladder, the citations the
\* ladder returns, which the resolver appends to the trail, are the first
\* three pii_hits when there are PII hits and the first three unsafe_hits
\* otherwise, whichever rung matched
C33_FallbackCitations ==
    [][ (pc = "resolve" /\ Val(verdict').source = "fallback") =>
            /\ audit_citations' = audit_citations \o FirstThreeHits
            /\ Len(audit_citations') <= Len(audit_citations) + 3 ]_vars

\* the ladder decided Unsafe for signals with four PII hits and an unsafe
\* hit: the trail ends with the first three PII hits
C33_Witness ==
    /\ pc = "second_opinion"
    /\ Val(verdict).source = "fallback"
    /\ Val(verdict).final_category = JStr("Unsafe")
    /\ Len(signals.pii_hits) > 3 /\ signals.unsafe_hits # <<>>
    /\ Len(audit_citations) >= 3
    /\ \A i \in 1..3 :
          audit_citations[Len(audit_citations) - 3 + i] = signals.pii_hits[i]

\* the ladder decided for signals without PII hits: the trail ends with the
\* unsafe hit
C33_UnsafeHitsWitness ==
    /\ pc = "second_opinion"
    /\ Val(verdict).source = "fallback"
    /\ signals.pii_hits = <<>> /\ signals.unsafe_hits # <<>>
    /\ ~signals.has_unsafe_pattern
    /\ audit_citations # <<>>
    /\ audit_citations[Len(audit_citations)] = signals.unsafe_hits[1]

\* C34: the content_safety of a returned result is the Content_safety value
\* of the secondary verdict when that verdict carries no error (the default
\* string when it has no such value), and the default string whenever the
\* secondary verdict carries an error
C34_ContentSafety ==
    Returned =>
        IF "error" \in DOMAIN Gem.v
            THEN Res.content_safety = JStr("Content is safe for kids")
        ELSE IF "Content_safety" \in DOMAIN Gem.v
            THEN Res.content_safety = Gem.v.Content_safety
        ELSE Res.content_safety = JStr("Content is safe for kids")

\* an error-free secondary verdict gave a value other than the default
C34_Witness ==
    /\ Returned
    /\ "error" \notin DOMAIN Gem.v
    /\ "Content_safety" \in DOMAIN Gem.v
    /\ Res.content_safety = JStr("Contains violent imagery")

\* a secondary verdict with an error and a Content_safety value of its own,
\* for a document with the unsafe signal decided Unsafe: the default stands
C34_ErrorWitness ==
    /\ Returned
    /\ "error" \in DOMAIN Gem.v
    /\ "Content_safety" \in DOMAIN Gem.v
    /\ Gem.v.Content_safety # JStr("Content is safe for kids")
    /\ signals.has_unsafe_pattern
    /\ Res.final_category = "Unsafe"
    /\ Res.content_safety = JStr("Content is safe for kids")

\* C35: no step of classify_document changes the DetectorSignals it was
\* given (flags, pii_hits, unsafe_hits and notes), and the raw_signals of a
\* returned result are these signals
C35_SignalsUnchanged ==
    /\ [][signals' = signals]_vars
    /\ [](Returned => Res.raw_signals = signals)

\* a run that took the fallback ladder with PII hits, after nodes had put
\* citations of their own on the trail, and returned
C35_Witness ==
    /\ Returned
    /\ Primary.source = "fallback"
    /\ Len(signals.pii_hits) > 3
    /\ Len(audit_citations) > 3
    /\ Res.raw_signals = signals

\* the locals and objects of a call after its first k steps, had it run on
\* its own from line 110 with the replies it got
RECURSIVE Alone(_, _)
Alone(run, k) ==
    IF k = 0
        THEN [loc |-> InitialLocals(run, runs[run].doc), objs |-> EmptyObjects]
    ELSE LET before == Alone(run, k - 1)
         IN classify_step(before.loc, before.objs, flow, runs[run].replies[k])

\* the outputs map, the summary-pages map, prompt_errors and the citation
\* trail of a call hold data of its own document only
OwnData(run) ==
    LET d == runs[run].doc
        own == Objects(runs[run])
        invoked == {runs[run].calls[i].id : i \in 1..Len(runs[run].calls)}
    IN /\ DOMAIN own.flow_outputs = invoked
       /\ \A id \in DOMAIN own.flow_outputs :
             \/ own.flow_outputs[id] = DocOutput(d, id)
             \/ IsErrorMarker(own.flow_outputs[id])
       /\ DOMAIN own.summary_pages \subseteq {JNum(d)}
       /\ \A i \in 1..Len(own.prompt_errors) : own.prompt_errors[i] \in invoked
       /\ \A i \in 1..Len(own.audit_citations) :
             own.audit_citations[i].page = Some(d)

\* C36: under every interleaving of two calls for two documents, each call's
\* outputs map, summary-pages map, prompt_errors and citation trail hold data
\* of its own document only, and its locals, its objects and the result it
\* returns are those of the same call run alone
C36_RunsIndependent ==
    \A run \in RunIds :
        /\ OwnData(run)
        /\ [loc |-> runs[run], objs |-> Objects(runs[run])] =
               Alone(run, Len(runs[run].replies))

\* both calls returned a result after each had recorded outputs, a summary
\* page and citations of its own document
C36_Witness ==
    /\ pc = "concurrent"
    /\ \A run \in RunIds :
          /\ runs[run].pc = "returned"
          /\ Cardinality(DOMAIN Objects(runs[run]).flow_outputs) >= 3
          /\ DOMAIN Objects(runs[run]).summary_pages # {}
          /\ Len(Objects(runs[run]).audit_citations) >= 2
    /\ runs[1].doc # runs[2].doc

\* one call is between two nodes of the flow while the other has already
\* resolved its verdict
C36_InterleavedWitness ==
    /\ pc = "concurrent"
    /\ runs[1].pc = "flow" /\ runs[1].idx = 2
    /\ DOMAIN Objects(runs[1]).flow_outputs # {}
    /\ runs[2].pc = "assemble"
    /\ DOMAIN Objects(runs[2]).flow_outputs # {}

\* the prompt of the node at the loop position is not in the library
UnknownPromptAt(i) ==
    flow[i].prompt \notin {"image_analysis", "pii_scan", "unsafe_scan",
                           "confidentiality_scan", "final_decision",
                           "summarize_pages"}

\* C37: the step that invokes a node whose prompt is unknown does not raise:
\* it records an error marker naming the node as the node's output, adds the
\* node id to prompt_errors and no citation to the trail, and halts the flow
\* at the node when stop_on_error is unset or true, while a node with
\* stop_on_error false (and neither final_node nor stop_if) lets the loop go
\* on to the next node
C37_UnknownPromptAbsorbed ==
    [][ (pc = "flow" /\ Len(calls') = Len(calls) + 1 /\ UnknownPromptAt(idx)) =>
          LET node == flow[idx]
          IN /\ pc' # "raised" /\ error' = None
             /\ node.id \in DOMAIN flow_outputs'
             /\ flow_outputs'[node.id].t = "dict"
             /\ "mock" \in DOMAIN flow_outputs'[node.id].v
             /\ flow_outputs'[node.id].v.mock = JBool(TRUE)
             /\ flow_outputs'[node.id].v.prompt_node = JStr(node.id)
             /\ prompt_errors' = Append(prompt_errors, node.id)
             /\ audit_citations' = audit_citations
             /\ (node.stop_on_error = None \/ node.stop_on_error = Some(TRUE)) =>
                    /\ pc' = "resolve" /\ idx' = idx
                    /\ final_node_id' = Some(node.id)
             /\ (node.stop_on_error = Some(FALSE) /\ ~node.final_node
                    /\ node.stop_if = <<>>) =>
                    /\ idx' = idx + 1
                    /\ final_node_id' = final_node_id ]_vars

\* a run in which a node with an unknown prompt was tolerated, a later node
\* answered, and a second node with an unknown prompt halted the flow: the
\* run returned a result
C37_Witness ==
    /\ Returned
    /\ flow = StaleFlow
    /\ prompt_errors = <<"precheck", "triage">>
    /\ Len(calls) = 3
    /\ final_node_id = Some("triage")
    /\ Primary.source = "fallback"

\* the number of documents of the job with the given status
DocumentsWith(status) ==
    Cardinality({d \in DOMAIN job.documents : job.documents[d].status = status})

\* every worker of the job has finished
WorkersFinished ==
    /\ batch \in {"waiting", "returned"}
    /\ \A d \in DOMAIN workers : workers[d].stage = "done"

\* C38: once all the workers of a job have finished, under every
\* interleaving, the completed counter is the number of documents with
\* status completed and the failed counter the number with status failed
C38_CountersMatch ==
    WorkersFinished =>
        /\ job.completed = DocumentsWith("completed")
        /\ job.failed = DocumentsWith("failed")

\* C39: when process_batch_job returns, under every interleaving, every
\* document of the job is completed or failed, and the job is failed if at
\* least one document failed and completed otherwise
C39_JobSettled ==
    batch = "returned" =>
        /\ \A d \in DOMAIN job.documents :
              job.documents[d].status \in {"completed", "failed"}
        /\ job.status = IF \E d \in DOMAIN job.documents :
                                job.documents[d].status = "failed"
                            THEN "failed" ELSE "completed"

\* the job of three documents returned failed although its failed counter
\* was left behind by the race: the status is still right
C39_Witness ==
    /\ batch = "returned"
    /\ Cardinality(DOMAIN job.documents) = 3
    /\ DocumentsWith("failed") = 3
    /\ job.failed < 3
    /\ job.status = "failed"

\* a job without documents returned completed
C39_EmptyJobWitness ==
    /\ batch = "returned"
    /\ DOMAIN job.documents = {}
    /\ job.status = "completed"

====
